---------------------------- MODULE Spec2Model ----------------------------
(***************************************************************************)
(* A model of the BMEcat 1.2 codec of olivere/bmecat:                      *)
(*   - the two-pass streaming Reader (v12/reader.go: Reader.Do), and       *)
(*   - the sequential streaming Writer (bmecat12/writer.go and             *)
(*     v12/writer.go: Writer.Do, Writer.writeArticles).                    *)
(* The Reader runs under Spec, the Writer under WSpec.                     *)
(***************************************************************************)
EXTENDS Integers, Sequences, FiniteSets, TLC

(***************************************************************************)
(* Bounds of the model.                                                    *)
(***************************************************************************)
\* Number of top-level items a document is built from.
MaxItems == 3
\* Number of Do invocations made on one Reader.
MaxDo == 2

(***************************************************************************)
(* XML documents as token streams.                                         *)
(* A token is a start element (k = "S"), an end element (k = "E") or a     *)
(* place where the tokenizer fails (k = "X", a syntax error).  A start     *)
(* element carries what DecodeElement would decode from its subtree:       *)
(*   a   ART_ID of a map record, SUPPLIER_AID of an article,               *)
(*   g   CATALOG_GROUP_ID of a map record, the ID of a group,              *)
(*   bad the subtree tokenizes but does not unmarshal into the record.     *)
(***************************************************************************)
HEADER == "HEADER"
CATALOG_STRUCTURE == "CATALOG_STRUCTURE"
CLASSIFICATION_GROUP == "CLASSIFICATION_GROUP"
ARTICLE == "ARTICLE"
ARTICLE_TO_CATALOGGROUP_MAP == "ARTICLE_TO_CATALOGGROUP_MAP"
\* Any element the reader does not dispatch on (BMECAT, T_NEW_CATALOG, ...).
OtherElement == "OTHER"

Payload == {HEADER, CATALOG_STRUCTURE, CLASSIFICATION_GROUP, ARTICLE,
            ARTICLE_TO_CATALOGGROUP_MAP}

StartEl(n, a, g, b) == [k |-> "S", name |-> n, a |-> a, g |-> g, bad |-> b]
EndEl == [k |-> "E", name |-> "", a |-> "", g |-> "", bad |-> FALSE]
\* A processing instruction, a directive or character data.
MiscTok(n) == [k |-> "M", name |-> n, a |-> "", g |-> "", bad |-> FALSE]
BadTok == [k |-> "X", name |-> "", a |-> "", g |-> "", bad |-> FALSE]

Leaf(n, a, g) == << StartEl(n, a, g, FALSE), EndEl >>
Nest(outer, inner) == << outer[1] >> \o inner \o << EndEl >>

\* The elements a BMEcat document is built from: the header, an article,
\* three map records, a group system holding a catalog group, and a
\* classification group.
SchemaItems ==
  { Leaf(HEADER, "", ""),
    Leaf(ARTICLE, "a1", ""),
    Leaf(ARTICLE_TO_CATALOGGROUP_MAP, "a1", "g1"),
    Leaf(ARTICLE_TO_CATALOGGROUP_MAP, "a1", "g2"),
    Leaf(ARTICLE_TO_CATALOGGROUP_MAP, "a2", "g1"),
    Nest(Leaf(OtherElement, "", ""), Leaf(CATALOG_STRUCTURE, "", "g1")),
    Leaf(CLASSIFICATION_GROUP, "", "c1") }

\* Input outside the schema: an article inside the header, an article
\* inside a map record, an article that does not unmarshal, and a place
\* where the input does not tokenize.
OddItems ==
  { Nest(Leaf(HEADER, "", ""), Leaf(ARTICLE, "a2", "")),
    Nest(Leaf(ARTICLE_TO_CATALOGGROUP_MAP, "a2", "g2"), Leaf(ARTICLE, "a1", "")),
    << StartEl(ARTICLE, "a2", "", TRUE), EndEl >>,
    << BadTok >> }

\* The sequences of at most n schema items.
RECURSIVE SchemaDocs(_)
SchemaDocs(n) ==
  IF n = 0 THEN { << >> }
  ELSE LET shorter == SchemaDocs(n - 1)
       IN  shorter \cup { d \o i : d \in shorter, i \in SchemaItems }

\* The documents of at most n items: schema items, the last of which may
\* be replaced by input outside the schema.
DocsOf(n) ==
  IF n = 0 THEN { << >> }
  ELSE SchemaDocs(n) \cup { d \o i : d \in SchemaDocs(n - 1), i \in OddItems }

Docs == DocsOf(MaxItems)


(***************************************************************************)
(* encoding/xml's Decoder over a token stream.  The decoder's state is the *)
(* index pos of the next token; InputOffset is the number of tokens read.  *)
(***************************************************************************)
InputOffset(p) == p - 1

\* Decoder.Token at position p: io.EOF at the end of the input, a syntax
\* error at a place that does not tokenize, else the token d[p].
Token(d, p) ==
  IF p > Len(d) THEN [err |-> "EOF", pos |-> p]
  ELSE IF d[p].k = "X" THEN [err |-> "xml", pos |-> p]
  ELSE [err |-> "nil", pos |-> p + 1]

\* Reads on from index i, depth elements being open, to the end element
\* that closes the outermost of them; fails where the input fails.
RECURSIVE SkipTo(_, _, _)
SkipTo(d, i, depth) ==
  IF i > Len(d) \/ d[i].k = "X" THEN [ok |-> FALSE, at |-> i]
  ELSE IF d[i].k = "S" THEN SkipTo(d, i + 1, depth + 1)
  ELSE IF d[i].k # "E" THEN SkipTo(d, i + 1, depth)
  ELSE IF depth = 1 THEN [ok |-> TRUE, at |-> i]
  ELSE SkipTo(d, i + 1, depth - 1)

\* DecodeElement reading the start tag only, the subtree left in the input.
DecodeElementShallow(d, p) ==
  IF d[p].bad THEN [err |-> "unmarshal", pos |-> p + 1]
  ELSE [err |-> "nil", pos |-> p + 1]

\* Decoder.DecodeElement(&v, &se), se = d[p] having been read: consumes the
\* subtree of se; the record decoded is read off se itself.
DecodeElement(d, p) ==
  LET e == SkipTo(d, p + 1, 1)
  IN  IF ~e.ok THEN [err |-> "xml", pos |-> e.at]
      ELSE IF d[p].bad THEN [err |-> "unmarshal", pos |-> e.at + 1]
      ELSE [err |-> "nil", pos |-> e.at + 1]

(***************************************************************************)
(* Error values.  kind says what Do returns:                               *)
(*   nil      no error                                                     *)
(*   io       the error of the first Seek, as it came                      *)
(*   seek     errors.Wrap(err, "... unable to seek back to start")         *)
(*   xml      the error of Decoder.Token, as it came                       *)
(*   decode   errors.Wrapf(err, "... unable to decode <elem> ...")         *)
(*   handler  errors.Wrapf(err, "... handler for <elem> <id> ...")         *)
(*   ctx      ctx.Err(), as it came                                        *)
(* elem, id and off are the element, the ID and the offset the message     *)
(* names (NoID, -1 when it names none); cause is the error wrapped.        *)
(***************************************************************************)
NoID == "-"
Nil == [kind |-> "nil", elem |-> "", id |-> NoID, off |-> -1, cause |-> "nil"]
Raw(kind) == [kind |-> kind, elem |-> "", id |-> NoID, off |-> -1, cause |-> kind]
Wrapf(kind, cause, elem, id, off) ==
  [kind |-> kind, elem |-> elem, id |-> id, off |-> off, cause |-> cause]

\* ctx.Err() of a cancelled context.
CtxErr == Raw("ctx")

(***************************************************************************)
(* Handlers.  A handler value implements a subset of five capabilities;    *)
(* a callback returns nil, io.EOF or another error.                        *)
(***************************************************************************)
AllCaps == {"Header", "CatalogGroup", "ClassifGroup", "Article", "Complete"}
HandlerRets == {"nil", "EOF", "err"}

\* The handlers Spec passes to Do: one that implements the five
\* capabilities (perfCommand) and one that implements the header and the
\* article capability (testHandler).  CapSpec passes every subset.
Handlers == { AllCaps, {"Header", "Article"} }

\* Implements taking every capability for present.
ImplementsAll(cps, c) == TRUE

\* The type assertions handler.(HeaderHandler), ... of Do.
Implements(cps, c) == c \in cps

\* One callback as the handler sees it: the capability called, the ID of
\* the record passed (SupplierAID, group ID), the CatalogGroupIDs of an
\* article, the four counters of a header, and what the callback returned.
Call(cb, id, groups, counts, r) ==
  [cb |-> cb, id |-> id, groups |-> groups, counts |-> counts, ret |-> r]

(***************************************************************************)
(* The cross-reference index: a map from article ID to group IDs.          *)
(***************************************************************************)
EmptyIndex == [x \in {} |-> << >>]

\* Lines 176-183: append the group ID to the article's entry, creating it.
IndexAppend(idx, aid, gid) ==
  IF aid \in DOMAIN idx
  THEN [idx EXCEPT ![aid] = Append(@, gid)]
  ELSE [x \in DOMAIN idx \cup {aid} |-> IF x = aid THEN << gid >> ELSE idx[x]]

\* Lines 265-269: the group IDs injected into an article (nil when absent).
IndexLookup(idx, aid) == IF aid \in DOMAIN idx THEN idx[aid] ELSE << >>

\* Pass1Token going on to the seek when the input fails.
Pass1TokenLenient(d, p, idx, nA, nCS, nCG) ==
  [next |-> IF Token(d, p).err = "nil" THEN "check" ELSE "seek",
   ret |-> Nil, pos |-> Token(d, p).pos, idx |-> idx, numArticles |-> nA,
   numCatalogGroups |-> nCS, numClassifGroups |-> nCG]

(***************************************************************************)
(* One iteration of the loop of pass 1, up to its cancellation check.      *)
(* next: "seek" (end of stream), "return" (Do returns ret), "check".       *)
(***************************************************************************)
Pass1Token(d, p, idx, nA, nCS, nCG) ==
  LET t == Token(d, p)
      same == [next |-> "check", ret |-> Nil, pos |-> t.pos, idx |-> idx,
               numArticles |-> nA, numCatalogGroups |-> nCS,
               numClassifGroups |-> nCG]
  IN  IF t.err = "EOF" THEN [same EXCEPT !.next = "seek"]
      ELSE IF t.err # "nil" THEN
        [same EXCEPT !.next = "return", !.ret = Raw("xml")]
      ELSE IF d[p].k # "S" THEN same
      ELSE IF d[p].name = ARTICLE THEN [same EXCEPT !.numArticles = nA + 1]
      ELSE IF d[p].name = CATALOG_STRUCTURE THEN
        [same EXCEPT !.numCatalogGroups = nCS + 1]
      ELSE IF d[p].name = CLASSIFICATION_GROUP THEN
        [same EXCEPT !.numClassifGroups = nCG + 1]
      ELSE IF d[p].name = ARTICLE_TO_CATALOGGROUP_MAP THEN
        LET m == DecodeElement(d, p)
        IN  IF m.err # "nil" THEN
              [same EXCEPT !.next = "return", !.pos = m.pos,
                 !.ret = Wrapf("decode", m.err, ARTICLE_TO_CATALOGGROUP_MAP,
                               NoID, InputOffset(m.pos))]
            ELSE [same EXCEPT !.pos = m.pos,
                    !.idx = IndexAppend(idx, d[p].a, d[p].g)]
      ELSE same

\* HeaderCounts counting the map records instead of the articles mapped.
HeaderCountsRecords(nA, nCS, nCG, idx) ==
  << nA, nCS, nCG,
     Cardinality(UNION { { << a, i >> : i \in DOMAIN idx[a] } : a \in DOMAIN idx }) >>

\* HeaderCounts taking the two group counters for each other.
HeaderCountsSwapped(nA, nCS, nCG, idx) ==
  << nA, nCG, nCS, Cardinality(DOMAIN idx) >>

\* Lines 226-231: the four counters written into the decoded header.
HeaderCounts(nA, nCS, nCG, idx) == << nA, nCS, nCG, Cardinality(DOMAIN idx) >>

\* HeaderStop not honouring io.EOF.
HeaderStopNever(hr) == FALSE

\* Line 233: the only outcome of HandleHeader that Do looks at.
HeaderStop(hr) == hr = "EOF"

\* HandlerFailed taking io.EOF for success.
HandlerFailedNotEOF(hr) == hr = "err"

\* Lines 244, 254, 271: a group or article callback failed.
HandlerFailed(hr) == hr # "nil"

\* Lines 245, 255, 272: the error Do returns for a failed callback.
HandlerError(hr, elem, id, off) == Wrapf("handler", hr, elem, id, off)

\* CtxCheck never seeing the cancellation.
CtxCheckNever(done) == FALSE

\* Lines 189-193 and 281-285: select { default: case <-ctx.Done(): }.
CtxCheck(done) == done

(***************************************************************************)
(* One iteration of the loop of pass 2, up to its cancellation check.      *)
(* hr is what the callback returns if one is called.                       *)
(* next: "complete" (end of stream), "return" (Do returns ret), "check".   *)
(* call holds the callback made, if any.                                   *)
(***************************************************************************)
Pass2Token(d, p, idx, nA, nCS, nCG, last, cps, hr) ==
  LET t == Token(d, p)
      same == [next |-> "check", ret |-> Nil, pos |-> t.pos, call |-> << >>,
               stop |-> FALSE, lastAID |-> last]
      e == DecodeElement(d, p)
      decoded == [same EXCEPT !.pos = e.pos]
      off == InputOffset(e.pos)
  IN  IF t.err = "EOF" THEN [same EXCEPT !.next = "complete", !.stop = TRUE]
      ELSE IF t.err # "nil" THEN
        [same EXCEPT !.next = "return", !.ret = Raw("xml")]
      ELSE IF d[p].k # "S" THEN same
      ELSE IF d[p].name = HEADER THEN
        IF e.err # "nil" THEN
          [decoded EXCEPT !.next = "return",
             !.ret = Wrapf("decode", e.err, HEADER, NoID, off)]
        ELSE IF Implements(cps, "Header") THEN
          [decoded EXCEPT
             !.call = << Call("Header", "", << >>,
                              HeaderCounts(nA, nCS, nCG, idx), hr) >>,
             !.stop = HeaderStop(hr)]
        ELSE decoded
      ELSE IF d[p].name = CATALOG_STRUCTURE THEN
        IF e.err # "nil" THEN
          [decoded EXCEPT !.next = "return",
             !.ret = Wrapf("decode", e.err, "CATALOG_GROUP", NoID, off)]
        ELSE IF Implements(cps, "CatalogGroup") THEN
          [decoded EXCEPT
             !.call = << Call("CatalogGroup", d[p].g, << >>, << >>, hr) >>,
             !.next = IF HandlerFailed(hr) THEN "return" ELSE "check",
             !.ret = IF HandlerFailed(hr)
                     THEN HandlerError(hr, "CATALOG_GROUP", d[p].g, off)
                     ELSE Nil]
        ELSE decoded
      ELSE IF d[p].name = CLASSIFICATION_GROUP THEN
        IF e.err # "nil" THEN
          [decoded EXCEPT !.next = "return",
             !.ret = Wrapf("decode", e.err, CLASSIFICATION_GROUP, NoID, off)]
        ELSE IF Implements(cps, "ClassifGroup") THEN
          [decoded EXCEPT
             !.call = << Call("ClassifGroup", d[p].g, << >>, << >>, hr) >>,
             !.next = IF HandlerFailed(hr) THEN "return" ELSE "check",
             !.ret = IF HandlerFailed(hr)
                     THEN HandlerError(hr, CLASSIFICATION_GROUP, d[p].g, off)
                     ELSE Nil]
        ELSE decoded
      ELSE IF d[p].name = ARTICLE THEN
        IF e.err # "nil" THEN
          [decoded EXCEPT !.next = "return",
             !.ret = Wrapf("decode", e.err, ARTICLE, last, off)]
        ELSE IF Implements(cps, "Article") THEN
          [decoded EXCEPT
             !.call = << Call("Article", d[p].a, IndexLookup(idx, d[p].a),
                              << >>, hr) >>,
             !.next = IF HandlerFailed(hr) THEN "return" ELSE "check",
             !.ret = IF HandlerFailed(hr)
                     THEN HandlerError(hr, ARTICLE, d[p].a, off)
                     ELSE Nil,
             !.lastAID = IF HandlerFailed(hr) THEN last ELSE d[p].a]
        ELSE [decoded EXCEPT !.lastAID = d[p].a]
      ELSE same

(***************************************************************************)
(* What one iteration does with the mutex artToCatalogGroupMu and with the *)
(* index, in the order of the code: "Lock", "Unlock", "read" and "write"   *)
(* of the index, "call" of a handler.                                      *)
(***************************************************************************)
\* Pass 1, lines 171-183: a map record that decodes is looked up and
\* entered between Lock and Unlock; no other token touches the index.
Pass1Locks(d, p) ==
  IF /\ Token(d, p).err = "nil"
     /\ d[p].k = "S" /\ d[p].name = ARTICLE_TO_CATALOGGROUP_MAP
     /\ DecodeElement(d, p).err = "nil"
  THEN << "Lock", "read", "write", "Unlock" >>
  ELSE << >>

\* Pass2Locks with the article handler called before the mutex is released.
Pass2LocksHeld(d, p, cps) ==
  IF Token(d, p).err # "nil" \/ d[p].k # "S" THEN << >>
  ELSE IF DecodeElement(d, p).err # "nil" THEN << >>
  ELSE IF d[p].name = ARTICLE /\ Implements(cps, "Article")
       THEN << "Lock", "read", "call", "Unlock" >>
  ELSE << >>

\* Pass 2: the header reads the size of the index (lines 229-231) and the
\* article its list (lines 265-269) between Lock and Unlock; the handler
\* is called after the Unlock.
Pass2Locks(d, p, cps) ==
  IF Token(d, p).err # "nil" \/ d[p].k # "S" THEN << >>
  ELSE IF DecodeElement(d, p).err # "nil" THEN << >>
  ELSE IF d[p].name = HEADER
       THEN << "Lock", "read", "Unlock" >>
              \o (IF Implements(cps, "Header") THEN << "call" >> ELSE << >>)
  ELSE IF d[p].name = CATALOG_STRUCTURE /\ Implements(cps, "CatalogGroup")
       THEN << "call" >>
  ELSE IF d[p].name = CLASSIFICATION_GROUP /\ Implements(cps, "ClassifGroup")
       THEN << "call" >>
  ELSE IF d[p].name = ARTICLE /\ Implements(cps, "Article")
       THEN << "Lock", "read", "Unlock", "call" >>
  ELSE << >>

\* CompleteCall notifying the handler twice.
CompleteCallTwice(cps) ==
  IF cps = {} THEN << >>
  ELSE << Call("Complete", "", << >>, << >>, "nil"),
          Call("Complete", "", << >>, << >>, "nil") >>

\* CompleteCall notifying nobody.
NoCompleteCall(cps) == << >>

\* Lines 288-290: the completion callback, if the handler implements it.
CompleteCall(cps) ==
  IF Implements(cps, "Complete")
  THEN << Call("Complete", "", << >>, << >>, "nil") >>
  ELSE << >>

(***************************************************************************)
(* The Reader as a state machine.                                          *)
(***************************************************************************)
VARIABLES
  doc,                \* the content of the io.ReadSeeker r.r
  caps,               \* the capabilities of the handler passed to Do
  artToCatalogGroup,  \* Reader.artToCatalogGroup
  pc,                 \* where Do is
  pos,                \* the decoder dec
  numArticles, numCatalogGroups, numClassifGroups,
  lastAID, stop,
  ctxDone,            \* ctx.Done() is closed
  ret,                \* what Do returned
  calls,              \* the callbacks of this Do, in order
  doCount,            \* Do invocations on this Reader so far
  idxAtStart,         \* artToCatalogGroup when this Do began
  ctxAtStart,         \* whether ctx was already cancelled when this Do began
  toks,               \* tokens this Do has processed in its two loops
  cancelToks,         \* toks when ctx was cancelled, -1 before
  cancelCalls,        \* Len(calls) when ctx was cancelled, -1 before
  mu                  \* mutex and index events of the latest iteration

rvars == << doc, caps, artToCatalogGroup, pc, pos, numArticles,
            numCatalogGroups, numClassifGroups, lastAID, stop, ctxDone, ret,
            calls, doCount, idxAtStart, ctxAtStart, toks, cancelToks,
            cancelCalls, mu >>

\* The Writer's state (described with the Writer below).
VARIABLES
  wpkg,        \* "bmecat12" or "v12"
  wtx,         \* Transaction()
  wprev,       \* PreviousVersion()
  whdr,        \* Header() is not nil
  wcls,        \* ClassificationSystem(): "nil", "blank", "full"
  wgs,         \* GroupSystem(): "none" (not implemented), "nil", "blank", "full"
  wprog,       \* a progress callback is configured
  articlesCh,  \* the article channel
  errCh,       \* the error channel
  wpc,         \* where Do is
  out,         \* the sections handed to the encoder, in order
  written,     \* writeArticles' counter
  progress,    \* the values the progress callback was called with
  wctxDone,    \* ctx.Done() is closed
  wret,        \* what Do returned
  produced,    \* articles the producer has sent
  wcancelAt    \* written when ctx was cancelled, -1 before

wvars == << wpkg, wtx, wprev, whdr, wcls, wgs, wprog, articlesCh, errCh, wpc,
            out, written, progress, wctxDone, wret, produced, wcancelAt >>

wconf == << wpkg, wtx, wprev, whdr, wcls, wgs, wprog >>

\* NewDateTime (src/bmecat12/date_time.go): its arguments, the value it
\* returned, and whether it has been called.
VARIABLES dtTyp, dtIn, dtOut, dtpc

dvars == << dtTyp, dtIn, dtOut, dtpc >>

\* A UserDefinedExtensions value (part_005): the fields added to it, the
\* tokens MarshalXML wrote, the value UnmarshalXML filled from them, and how
\* far the round has come.
VARIABLES udx, udxXml, udxRead, upc

uvars == << udx, udxXml, udxRead, upc >>

fvars == << dvars, uvars >>

(***************************************************************************)
(* time.Time as NewDateTime uses it: the instant, as days and seconds      *)
(* since 0001-01-01 00:00:00 UTC plus nanoseconds, and the Location with   *)
(* the offset (seconds east of UTC) it has at that instant.                *)
(***************************************************************************)
Location(name, offset) == [name |-> name, offset |-> offset]

\* time.UTC.
UTC == Location("UTC", 0)

GoTime(day, sec, nsec, loc) ==
  [day |-> day, sec |-> sec, nsec |-> nsec, loc |-> loc]

\* Time.IsZero: the instant is January 1, year 1, 00:00:00 UTC, whatever
\* the Location.
IsZero(t) == t.day = 0 /\ t.sec = 0 /\ t.nsec = 0

\* The wall clock of t in its Location: the day and the second of that day.
WallDay(t) == t.day + ((t.sec + t.loc.offset) \div 86400)
WallSecond(t) == (t.sec + t.loc.offset) % 86400

\* The proleptic Gregorian date of day number n (0 is 0001-01-01).
Civil(n) ==
  LET z == n + 306
      era == z \div 146097
      doe == z - era * 146097
      yoe == (doe - (doe \div 1460) + (doe \div 36524) - (doe \div 146096))
               \div 365
      doy == doe - (365 * yoe + (yoe \div 4) - (yoe \div 100))
      mp == (5 * doy + 2) \div 153
      m == IF mp < 10 THEN mp + 3 ELSE mp - 9
  IN  [year |-> yoe + era * 400 + (IF m <= 2 THEN 1 ELSE 0),
       month |-> m,
       day |-> doy - ((153 * mp + 2) \div 5) + 1]

\* A number in at least two (four) digits, as Time.Format writes it.
Pad2(n) == IF n < 10 THEN "0" \o ToString(n) ELSE ToString(n)
Pad4(n) ==
  IF n < 10 THEN "000" \o ToString(n)
  ELSE IF n < 100 THEN "00" \o ToString(n)
  ELSE IF n < 1000 THEN "0" \o ToString(n)
  ELSE ToString(n)

\* Time.Format for the three layouts NewDateTime passes.  The zone offset is
\* cut to whole minutes towards zero before its sign is taken.
Format(t, layout) ==
  CASE layout = "2006-01-02" ->
         LET c == Civil(WallDay(t))
         IN  Pad4(c.year) \o "-" \o Pad2(c.month) \o "-" \o Pad2(c.day)
    [] layout = "15:04:05" ->
         LET s == WallSecond(t)
         IN  Pad2(s \div 3600) \o ":" \o Pad2((s % 3600) \div 60) \o ":"
               \o Pad2(s % 60)
    [] layout = "-07:00" ->
         LET off == t.loc.offset
             zone == IF off < 0 THEN (0 - off) \div 60 ELSE off \div 60
             sign == IF off < 0 /\ zone > 0 THEN "-" ELSE "+"
         IN  sign \o Pad2(zone \div 60) \o ":" \o Pad2(zone % 60)

\* A *DateTime: the nil pointer, or the record NewDateTime filled.
NilDateTime ==
  [nil |-> TRUE, Type |-> "", DateString |-> "", TimeString |-> "",
   TimeZoneString |-> ""]

\* NewDateTime with the offset layout for every Location.
NewDateTimeOffsetOnly(typ, dt) ==
  IF IsZero(dt) THEN NilDateTime
  ELSE [nil |-> FALSE, Type |-> typ,
        DateString |-> Format(dt, "2006-01-02"),
        TimeString |-> Format(dt, "15:04:05"),
        TimeZoneString |-> Format(dt, "-07:00")]

\* NewDateTime, lines 31-46.  dt.Location() == time.UTC compares the
\* Location itself, not its offset.
NewDateTime(typ, dt) ==
  IF IsZero(dt) THEN NilDateTime
  ELSE [nil |-> FALSE, Type |-> typ,
        DateString |-> Format(dt, "2006-01-02"),
        TimeString |-> Format(dt, "15:04:05"),
        TimeZoneString |-> IF dt.loc = UTC THEN "Z"
                           ELSE Format(dt, "-07:00")]

\* NewDateTime is not in use.
DIdle ==
  /\ dtTyp = "" /\ dtIn = GoTime(0, 0, 0, UTC) /\ dtOut = NilDateTime
  /\ dtpc = "idle"

\* The extensions are not in use.
UIdle == udx = << >> /\ udxXml = << >> /\ udxRead = << >> /\ upc = "idle"

FIdle == DIdle /\ UIdle

vars == << rvars, wvars, fvars >>

\* NewReader (lines 68-78) over one of docs and a handler value out of
\* handlers; Do has not been called.
RInitWith(docs, handlers) ==
  /\ doc \in docs
  /\ caps \in handlers
  /\ artToCatalogGroup = EmptyIndex
  /\ pc = "idle"
  /\ pos = 1
  /\ numArticles = 0 /\ numCatalogGroups = 0 /\ numClassifGroups = 0
  /\ lastAID = "" /\ stop = FALSE
  /\ ctxDone = FALSE
  /\ ret = Nil
  /\ calls = << >>
  /\ doCount = 0
  /\ idxAtStart = EmptyIndex /\ ctxAtStart = FALSE
  /\ toks = 0 /\ cancelToks = -1 /\ cancelCalls = -1
  /\ mu = << >>

RInit == RInitWith(Docs, Handlers)

Return(r) == pc' = "done" /\ ret' = r

\* Lines 110-152: Do is called with a context that may be cancelled
\* already; the first Seek fails or succeeds; pass 1 begins.  The caller
\* uses a Reader again only after a Do that returned nil.
DoStart ==
  /\ UNCHANGED << wvars, fvars >>
  /\ pc = "idle" \/ (pc = "done" /\ ret = Nil)
  /\ doCount < MaxDo
  /\ doCount' = doCount + 1
  /\ calls' = << >>
  /\ idxAtStart' = artToCatalogGroup
  /\ toks' = 0
  /\ mu' = << >>
  /\ \E c \in BOOLEAN :
       /\ ctxDone' = c
       /\ ctxAtStart' = c
       /\ cancelToks' = IF c THEN 0 ELSE -1
       /\ cancelCalls' = IF c THEN 0 ELSE -1
  /\ numArticles' = 0 /\ numCatalogGroups' = 0 /\ numClassifGroups' = 0
  /\ pos' = 1 /\ stop' = FALSE /\ lastAID' = ""
  /\ \E seekOK \in BOOLEAN :
       IF seekOK THEN pc' = "pass1" /\ ret' = Nil
       ELSE Return(Raw("io"))
  /\ UNCHANGED << doc, caps, artToCatalogGroup >>

\* The context is cancelled while Do runs.
Cancel ==
  /\ UNCHANGED << wvars, fvars >>
  /\ pc \notin {"idle", "done"}
  /\ ~ctxDone
  /\ ctxDone' = TRUE
  /\ cancelToks' = toks
  /\ cancelCalls' = Len(calls)
  /\ UNCHANGED << doc, caps, artToCatalogGroup, pc, pos, numArticles,
                  numCatalogGroups, numClassifGroups, lastAID, stop, ret,
                  calls, doCount, idxAtStart, ctxAtStart, toks, mu >>

\* Lines 153-188: one token of pass 1.
Pass1Step ==
  /\ UNCHANGED << wvars, fvars >>
  /\ pc = "pass1"
  /\ LET r == Pass1Token(doc, pos, artToCatalogGroup, numArticles,
                         numCatalogGroups, numClassifGroups)
     IN  /\ pos' = r.pos
         /\ artToCatalogGroup' = r.idx
         /\ numArticles' = r.numArticles
         /\ numCatalogGroups' = r.numCatalogGroups
         /\ numClassifGroups' = r.numClassifGroups
         /\ stop' = (r.next = "seek")
         /\ toks' = IF r.next = "seek" \/ r.ret.kind = "xml"
                    THEN toks ELSE toks + 1
         /\ IF r.next = "return" THEN Return(r.ret)
            ELSE pc' = (IF r.next = "seek" THEN "seek" ELSE "check1")
                 /\ ret' = ret
  /\ mu' = Pass1Locks(doc, pos)
  /\ UNCHANGED << doc, caps, lastAID, ctxDone, calls, doCount, idxAtStart, ctxAtStart,
                  cancelToks, cancelCalls >>

\* Lines 189-193: the cancellation check that ends an iteration of pass 1.
Pass1Check ==
  /\ UNCHANGED << wvars, fvars >>
  /\ pc = "check1"
  /\ IF CtxCheck(ctxDone) THEN Return(CtxErr) ELSE pc' = "pass1" /\ ret' = ret
  /\ UNCHANGED << doc, caps, artToCatalogGroup, pos, numArticles,
                  numCatalogGroups, numClassifGroups, lastAID, stop, ctxDone,
                  calls, doCount, idxAtStart, ctxAtStart, toks, cancelToks,
                  cancelCalls, mu >>

\* Lines 196-208: seek back to the start; pass 2 begins.
SeekBack ==
  /\ UNCHANGED << wvars, fvars >>
  /\ pc = "seek"
  /\ \E seekOK \in BOOLEAN :
       IF seekOK THEN pc' = "pass2" /\ ret' = ret
       ELSE Return(Wrapf("seek", "io", "", NoID, -1))
  /\ pos' = 1 /\ stop' = FALSE /\ lastAID' = ""
  /\ UNCHANGED << doc, caps, artToCatalogGroup, numArticles, numCatalogGroups,
                  numClassifGroups, ctxDone, calls, doCount, idxAtStart, ctxAtStart, toks,
                  cancelToks, cancelCalls, mu >>

\* Lines 209-280: one token of pass 2 and the callback it leads to, for a
\* handler whose callbacks return one of rets.
Pass2StepWith(rets) ==
  /\ UNCHANGED << wvars, fvars >>
  /\ pc = "pass2"
  /\ \E hr \in rets :
       LET r == Pass2Token(doc, pos, artToCatalogGroup, numArticles,
                           numCatalogGroups, numClassifGroups, lastAID, caps,
                           hr)
       IN  /\ pos' = r.pos
           /\ calls' = calls \o r.call
           /\ stop' = r.stop
           /\ lastAID' = r.lastAID
           /\ toks' = IF r.next = "complete" \/ r.ret.kind = "xml"
                      THEN toks ELSE toks + 1
           /\ IF r.next = "return" THEN Return(r.ret)
              ELSE pc' = (IF r.next = "complete" THEN "complete" ELSE "check2")
                   /\ ret' = ret
  /\ mu' = Pass2Locks(doc, pos, caps)
  /\ UNCHANGED << doc, caps, artToCatalogGroup, numArticles, numCatalogGroups,
                  numClassifGroups, ctxDone, doCount, idxAtStart, ctxAtStart, cancelToks,
                  cancelCalls >>

Pass2Step == Pass2StepWith(HandlerRets)

\* Lines 281-286: the cancellation check that ends an iteration of pass 2,
\* and the loop condition !stop.
Pass2Check ==
  /\ UNCHANGED << wvars, fvars >>
  /\ pc = "check2"
  /\ IF CtxCheck(ctxDone) THEN Return(CtxErr)
     ELSE pc' = (IF stop THEN "complete" ELSE "pass2") /\ ret' = ret
  /\ UNCHANGED << doc, caps, artToCatalogGroup, pos, numArticles,
                  numCatalogGroups, numClassifGroups, lastAID, stop, ctxDone,
                  calls, doCount, idxAtStart, ctxAtStart, toks, cancelToks,
                  cancelCalls, mu >>

\* Lines 288-292: the completion callback; Do returns nil.
Complete ==
  /\ UNCHANGED << wvars, fvars >>
  /\ pc = "complete"
  /\ calls' = calls \o CompleteCall(caps)
  /\ mu' = [i \in DOMAIN CompleteCall(caps) |-> "call"]
  /\ Return(Nil)
  /\ UNCHANGED << doc, caps, artToCatalogGroup, pos, numArticles,
                  numCatalogGroups, numClassifGroups, lastAID, stop, ctxDone,
                  doCount, idxAtStart, ctxAtStart, toks, cancelToks, cancelCalls >>

Next ==
  \/ DoStart
  \/ Cancel
  \/ Pass1Step
  \/ Pass1Check
  \/ SeekBack
  \/ Pass2Step
  \/ Pass2Check
  \/ Complete

(***************************************************************************)
(* The Writer.  wpkg tells the two packages apart: bmecat12.Writer.Do      *)
(* takes a CatalogWriter and asks it for the channels, v12.Writer.Do is    *)
(* handed the article channel and knows no error channel.                  *)
(***************************************************************************)
\* Number of articles the producer has to offer.
MaxArticles == 3
\* Number of articles the channel holds ready for the writer at a time.
MaxQueue == 1

NewCatalog == 0
UpdateProducts == 1
UpdatePrices == 2
Transactions == {NewCatalog, UpdateProducts, UpdatePrices}

\* Transaction.String.
TxString(t) ==
  IF t = UpdateProducts THEN "T_UPDATE_PRODUCTS"
  ELSE IF t = UpdatePrices THEN "T_UPDATE_PRICES"
  ELSE "T_NEW_CATALOG"

\* Writer.xmlNamespace.
XmlNamespace(t) ==
  IF t = UpdateProducts THEN "bmecat_update_products"
  ELSE IF t = UpdatePrices THEN "bmecat_update_prices"
  ELSE "bmecat_new_catalog"

\* One section of the output: what it is, the name it carries, a number
\* (the article written, the prev_version attribute; -1 when it has none).
Sec(sec, name, n) == [sec |-> sec, name |-> name, n |-> n]

\* TxStartElement giving every kind the attribute.
TxStartWithPrev(t, prev) == Sec("txstart", TxString(t), prev)

\* Writer.txStartElement: prev_version only for the two update kinds.
TxStartElement(t, prev) ==
  IF t \in {UpdateProducts, UpdatePrices}
  THEN Sec("txstart", TxString(t), prev)
  ELSE Sec("txstart", TxString(t), -1)

\* TxEndElement writing an opening tag.
TxEndOpens(t) == Sec("txstart", TxString(t), -1)

\* Writer.txEndElement.
TxEndElement(t) == Sec("txend", TxString(t), -1)

\* IsBlank not looking at the groups.
IsNil(sys) == sys = "nil"

\* ClassificationSystem.IsBlank, GroupSystem.IsBlank: a system is "nil",
\* "blank" (no groups) or "full".
IsBlank(sys) == sys = "nil" \/ sys = "blank"

\* Groups in a classification system that is not blank.
MaxClassifGroups == 2
\* Structure items in a catalog group system that is not blank.
MaxStructures == 1

\* len(cs.Groups), len(gs.Structure): a "full" system holds n of them.
Groups(sys, n) == IF sys = "full" THEN n ELSE 0

\* Article.SupplierAID of the n-th article the producer offers; IDs repeat.
SupplierAIDOf(n) == IF n % 2 = 1 THEN "a1" ELSE "a2"

\* A channel: nil or made, the values ready to be received, closed or not.
NilChan == [nil |-> TRUE, q |-> << >>, closed |-> FALSE]
MadeChan == [nil |-> FALSE, q |-> << >>, closed |-> FALSE]

\* A receive is ready: a value is waiting, or the channel is closed.
RecvReady(ch) == ~ch.nil /\ (ch.q # << >> \/ ch.closed)

\* NewWriter and the catalog description; Do has not been called.
WInit ==
  /\ wpkg \in {"bmecat12", "v12"}
  /\ wtx \in Transactions
  /\ wprev \in {0, 1}
  /\ whdr \in BOOLEAN
  /\ wcls \in IF wpkg = "v12" THEN {"nil"} ELSE {"nil", "blank", "full"}
  /\ wgs \in IF wpkg = "v12" THEN {"none"} ELSE {"none", "blank", "full"}
  /\ wprog \in BOOLEAN
  /\ articlesCh \in {NilChan, MadeChan}
  /\ errCh \in IF wpkg = "v12" \/ articlesCh.nil THEN {NilChan}
               ELSE {NilChan, MadeChan}
  /\ wpc = "idle"
  /\ out = << >>
  /\ written = 0
  /\ progress = << >>
  /\ wctxDone = FALSE
  /\ wret = Nil
  /\ produced = 0
  /\ wcancelAt = -1

WReturn(r) == wpc' = "done" /\ wret' = r

\* errors.Wrap(err, "bmecat/v12: unable to write <part>").
WWrap(cause, part) == Wrapf("write", cause, part, NoID, -1)

\* A step that hands section s to the encoder, which may fail; on success
\* Do goes on at next.
Emit(s, part, next) ==
  \E ok \in BOOLEAN :
    IF ok THEN out' = out \o s /\ wpc' = next /\ wret' = wret
    ELSE out' = out /\ WReturn(WWrap("io", part))

\* Do is called with a context that may be cancelled already.
WStart ==
  /\ UNCHANGED << rvars, fvars >>
  /\ wpc = "idle"
  /\ wpc' = "leadin"
  /\ \E c \in BOOLEAN : wctxDone' = c /\ wcancelAt' = (IF c THEN 0 ELSE -1)
  /\ UNCHANGED << wconf, articlesCh, errCh, out, written, progress, wret,
                  produced >>

\* The context is cancelled while Do runs.
WCancel ==
  /\ UNCHANGED << rvars, fvars >>
  /\ wpc \notin {"idle", "done"}
  /\ ~wctxDone
  /\ wctxDone' = TRUE
  /\ wcancelAt' = written
  /\ UNCHANGED << wconf, articlesCh, errCh, wpc, out, written, progress, wret,
                  produced >>

\* writeLeadIn: the XML declaration, the DOCTYPE line, the root element.
\* v12 always writes the new-catalog namespace.
WLeadIn ==
  /\ UNCHANGED << rvars, fvars >>
  /\ wpc = "leadin"
  /\ Emit(<< Sec("xmldecl", "", -1), Sec("doctype", "", -1),
             Sec("root", IF wpkg = "v12" THEN XmlNamespace(NewCatalog)
                         ELSE XmlNamespace(wtx), -1) >>,
          "lead in", "header")
  /\ UNCHANGED << wconf, articlesCh, errCh, written, progress, wctxDone,
                  produced, wcancelAt >>

\* The header, if there is one.
WHeader ==
  /\ UNCHANGED << rvars, fvars >>
  /\ wpc = "header"
  /\ IF whdr THEN Emit(<< Sec("header", "", -1) >>, "Header", "txstart")
     ELSE out' = out /\ wpc' = "txstart" /\ wret' = wret
  /\ UNCHANGED << wconf, articlesCh, errCh, written, progress, wctxDone,
                  produced, wcancelAt >>

\* The opening transaction element.
WTxStart ==
  /\ UNCHANGED << rvars, fvars >>
  /\ wpc = "txstart"
  /\ Emit(<< TxStartElement(wtx, wprev) >>, "opening", "clsys")
  /\ UNCHANGED << wconf, articlesCh, errCh, written, progress, wctxDone,
                  produced, wcancelAt >>

\* bmecat12, lines 152-162: CLASSIFICATION_SYSTEM.
WClassificationSystem ==
  /\ UNCHANGED << rvars, fvars >>
  /\ wpc = "clsys"
  /\ IF wpkg = "bmecat12" /\ wtx = NewCatalog /\ wcls # "nil" /\ ~IsBlank(wcls)
     THEN Emit(<< Sec("clsys", "", Groups(wcls, MaxClassifGroups)) >>, "CLASSIFICATION_SYSTEM", "groupsys")
     ELSE out' = out /\ wpc' = "groupsys" /\ wret' = wret
  /\ UNCHANGED << wconf, articlesCh, errCh, written, progress, wctxDone,
                  produced, wcancelAt >>

\* bmecat12, lines 164-175: CATALOG_GROUP_SYSTEM.
WGroupSystem ==
  /\ UNCHANGED << rvars, fvars >>
  /\ wpc = "groupsys"
  /\ IF wpkg = "bmecat12" /\ wtx = NewCatalog /\ wgs # "none" /\ wgs # "nil"
        /\ ~IsBlank(wgs)
     THEN Emit(<< Sec("groupsys", "", Groups(wgs, MaxStructures)) >>, "CATALOG_GROUP_SYSTEM", "articles")
     ELSE out' = out /\ wpc' = "articles" /\ wret' = wret
  /\ UNCHANGED << wconf, articlesCh, errCh, written, progress, wctxDone,
                  produced, wcancelAt >>

\* writeArticles without lines 226-229: the loop is entered whatever the
\* article channel is.
WArticlesLoop ==
  /\ UNCHANGED << rvars, fvars >>
  /\ wpc = "articles"
  /\ wpc' = "select"
  /\ UNCHANGED << wconf, articlesCh, errCh, out, written, progress, wctxDone,
                  wret, produced, wcancelAt >>

\* bmecat12 writeArticles, lines 226-229: a nil article channel skips the
\* article step.  v12 goes into its loop whatever the channel is.
WArticles ==
  /\ UNCHANGED << rvars, fvars >>
  /\ wpc = "articles"
  /\ wpc' = IF wpkg = "bmecat12" /\ articlesCh.nil THEN "txend" ELSE "select"
  /\ UNCHANGED << wconf, articlesCh, errCh, out, written, progress, wctxDone,
                  wret, produced, wcancelAt >>

\* What Do returns when writeArticles returns err: bmecat12 wraps it
\* (lines 178-180), v12 returns it as it came (lines 135-143).
ArticleStepError(pkg, cause, id) ==
  IF pkg = "bmecat12" THEN Wrapf("write", cause, "ARTICLE", id, -1)
  ELSE IF cause = "ctx" THEN CtxErr
  ELSE Wrapf("write", cause, "article", id, -1)

\* The article case reporting progress before it writes, so also for an
\* article whose write fails.
WSelectArticleEager ==
  /\ UNCHANGED << rvars, fvars >>
  /\ wpc = "select"
  /\ ~articlesCh.nil /\ articlesCh.q # << >>
  /\ articlesCh' = [articlesCh EXCEPT !.q = Tail(@)]
  /\ progress' = IF wprog THEN Append(progress, written + 1) ELSE progress
  /\ \E ok \in BOOLEAN :
       IF ok
       THEN /\ out' = Append(out, Sec("article", "", Head(articlesCh.q)))
            /\ written' = written + 1
            /\ wpc' = "select" /\ wret' = wret
       ELSE /\ out' = out /\ written' = written
            /\ WReturn(ArticleStepError(wpkg, "io", Head(articlesCh.q)))
  /\ UNCHANGED << wconf, errCh, wctxDone, produced, wcancelAt >>

\* select case a, ok := <-articlesCh with an article: it is serialized and
\* counted, and progress is reported; a failed write ends Do.
WSelectArticle ==
  /\ UNCHANGED << rvars, fvars >>
  /\ wpc = "select"
  /\ ~articlesCh.nil /\ articlesCh.q # << >>
  /\ articlesCh' = [articlesCh EXCEPT !.q = Tail(@)]
  /\ \E ok \in BOOLEAN :
       IF ok
       THEN /\ out' = Append(out, Sec("article", "", Head(articlesCh.q)))
            /\ written' = written + 1
            /\ progress' = IF wprog THEN Append(progress, written + 1)
                           ELSE progress
            /\ wpc' = "select" /\ wret' = wret
       ELSE /\ out' = out /\ written' = written /\ progress' = progress
            /\ WReturn(ArticleStepError(wpkg, "io", Head(articlesCh.q)))
  /\ UNCHANGED << wconf, errCh, wctxDone, produced, wcancelAt >>

\* select case a, ok := <-articlesCh on the closed, drained channel.
WSelectClosed ==
  /\ UNCHANGED << rvars, fvars >>
  /\ wpc = "select"
  /\ ~articlesCh.nil /\ articlesCh.q = << >> /\ articlesCh.closed
  /\ wpc' = "txend"
  /\ UNCHANGED << wconf, articlesCh, errCh, out, written, progress, wctxDone,
                  wret, produced, wcancelAt >>

\* select case err := <-errCh (bmecat12 only): writeArticles returns what it
\* received, which is nil when the channel was closed.
WSelectErr ==
  /\ UNCHANGED << rvars, fvars >>
  /\ wpc = "select"
  /\ wpkg = "bmecat12"
  /\ RecvReady(errCh)
  /\ IF errCh.q # << >>
     THEN /\ errCh' = [errCh EXCEPT !.q = Tail(@)]
          /\ WReturn(ArticleStepError(wpkg, Head(errCh.q), NoID))
     ELSE /\ errCh' = errCh
          /\ wpc' = "txend" /\ wret' = wret
  /\ UNCHANGED << wconf, articlesCh, out, written, progress, wctxDone,
                  produced, wcancelAt >>

\* The ctx.Done() case closing the document before it returns.
WSelectCtxClosing ==
  /\ UNCHANGED << rvars, fvars >>
  /\ wpc = "select"
  /\ wctxDone
  /\ out' = out \o << TxEndElement(wtx), Sec("rootend", "", -1) >>
  /\ WReturn(ArticleStepError(wpkg, "ctx", NoID))
  /\ UNCHANGED << wconf, articlesCh, errCh, written, progress, wctxDone,
                  produced, wcancelAt >>

\* select case <-ctx.Done().
WSelectCtx ==
  /\ UNCHANGED << rvars, fvars >>
  /\ wpc = "select"
  /\ wctxDone
  /\ WReturn(ArticleStepError(wpkg, "ctx", NoID))
  /\ UNCHANGED << wconf, articlesCh, errCh, out, written, progress, wctxDone,
                  produced, wcancelAt >>

\* The closing transaction element.
WTxEnd ==
  /\ UNCHANGED << rvars, fvars >>
  /\ wpc = "txend"
  /\ Emit(<< TxEndElement(wtx) >>, "closing", "leadout")
  /\ UNCHANGED << wconf, articlesCh, errCh, written, progress, wctxDone,
                  produced, wcancelAt >>

\* writeLeadOut: the closing root element.
WLeadOut ==
  /\ UNCHANGED << rvars, fvars >>
  /\ wpc = "leadout"
  /\ Emit(<< Sec("rootend", "", -1) >>, "lead out", "flush")
  /\ UNCHANGED << wconf, articlesCh, errCh, written, progress, wctxDone,
                  produced, wcancelAt >>

\* return w.enc.Flush().
WFlush ==
  /\ UNCHANGED << rvars, fvars >>
  /\ wpc = "flush"
  /\ \E ok \in BOOLEAN :
       IF ok THEN out' = Append(out, Sec("flush", "", -1)) /\ WReturn(Nil)
       ELSE out' = out /\ WReturn(Raw("io"))
  /\ UNCHANGED << wconf, articlesCh, errCh, written, progress, wctxDone,
                  produced, wcancelAt >>

(***************************************************************************)
(* The producer of articles, as the writer's loop sees it.                 *)
(***************************************************************************)
\* The producer has its next article ready on the channel.
ProduceArticle ==
  /\ UNCHANGED << rvars, fvars >>
  /\ wpc = "select"
  /\ ~articlesCh.nil /\ ~articlesCh.closed
  /\ Len(articlesCh.q) < MaxQueue
  /\ produced < MaxArticles
  /\ produced' = produced + 1
  /\ articlesCh' = [articlesCh EXCEPT !.q = Append(@, produced + 1)]
  /\ UNCHANGED << wconf, errCh, wpc, out, written, progress, wctxDone, wret,
                  wcancelAt >>

\* The producer closes the article channel.
CloseArticles ==
  /\ UNCHANGED << rvars, fvars >>
  /\ wpc = "select"
  /\ ~articlesCh.nil /\ ~articlesCh.closed
  /\ articlesCh' = [articlesCh EXCEPT !.closed = TRUE]
  /\ UNCHANGED << wconf, errCh, wpc, out, written, progress, wctxDone, wret,
                  produced, wcancelAt >>

\* The producer reports an error.
ProduceError ==
  /\ UNCHANGED << rvars, fvars >>
  /\ wpc = "select"
  /\ ~errCh.nil /\ ~errCh.closed /\ errCh.q = << >>
  /\ errCh' = [errCh EXCEPT !.q = << "producer" >>]
  /\ UNCHANGED << wconf, articlesCh, wpc, out, written, progress, wctxDone,
                  wret, produced, wcancelAt >>

\* The producer closes the error channel.
CloseErrors ==
  /\ UNCHANGED << rvars, fvars >>
  /\ wpc = "select"
  /\ ~errCh.nil /\ ~errCh.closed
  /\ errCh' = [errCh EXCEPT !.closed = TRUE]
  /\ UNCHANGED << wconf, articlesCh, wpc, out, written, progress, wctxDone,
                  wret, produced, wcancelAt >>

WriterNext ==
  \/ WStart
  \/ WCancel
  \/ WLeadIn
  \/ WHeader
  \/ WTxStart
  \/ WClassificationSystem
  \/ WGroupSystem
  \/ WArticles
  \/ WSelectArticle
  \/ WSelectClosed
  \/ WSelectErr
  \/ WSelectCtx
  \/ WTxEnd
  \/ WLeadOut
  \/ WFlush
  \/ ProduceArticle
  \/ CloseArticles
  \/ ProduceError
  \/ CloseErrors

(***************************************************************************)
(* The specifications: Spec runs a Reader, WSpec a Writer.                 *)
(***************************************************************************)
\* No Writer is at work.
WIdle ==
  /\ wpkg = "bmecat12" /\ wtx = NewCatalog /\ wprev = 0 /\ whdr = FALSE
  /\ wcls = "nil" /\ wgs = "none" /\ wprog = FALSE
  /\ articlesCh = NilChan /\ errCh = NilChan
  /\ wpc = "idle" /\ out = << >> /\ written = 0 /\ progress = << >>
  /\ wctxDone = FALSE /\ wret = Nil /\ produced = 0 /\ wcancelAt = -1

\* No Reader is at work.
RIdle ==
  /\ doc = << >> /\ caps = {} /\ artToCatalogGroup = EmptyIndex
  /\ pc = "idle" /\ pos = 1
  /\ numArticles = 0 /\ numCatalogGroups = 0 /\ numClassifGroups = 0
  /\ lastAID = "" /\ stop = FALSE /\ ctxDone = FALSE /\ ret = Nil
  /\ calls = << >> /\ doCount = 0 /\ idxAtStart = EmptyIndex /\ ctxAtStart = FALSE
  /\ toks = 0 /\ cancelToks = -1 /\ cancelCalls = -1
  /\ mu = << >>

Init == RInit /\ WIdle /\ FIdle
Spec == Init /\ [][Next]_vars

WriterInit == WInit /\ RIdle /\ FIdle
WSpec == WriterInit /\ [][WriterNext]_vars

(***************************************************************************)
(* Do as a function of its input: the run Do makes on document d with the  *)
(* index idx, a handler of capabilities cps whose callbacks return nil,    *)
(* and a context that is done or not from the start, when no Seek fails.   *)
(***************************************************************************)
RECURSIVE RunPass1(_, _, _, _, _)
\* Lines 153-194; c holds the three counters.
RunPass1(d, p, idx, c, done) ==
  LET r == Pass1Token(d, p, idx, c[1], c[2], c[3])
      cn == << r.numArticles, r.numCatalogGroups, r.numClassifGroups >>
  IN  IF r.next = "return" THEN [ok |-> FALSE, ret |-> r.ret, idx |-> r.idx, c |-> cn]
      ELSE IF r.next = "seek" THEN [ok |-> TRUE, ret |-> Nil, idx |-> r.idx, c |-> cn]
      ELSE IF CtxCheck(done) THEN [ok |-> FALSE, ret |-> CtxErr, idx |-> r.idx, c |-> cn]
      ELSE RunPass1(d, r.pos, r.idx, cn, done)

RECURSIVE RunPass2(_, _, _, _, _, _, _, _)
\* Lines 209-292; acc holds the callbacks made so far.
RunPass2(d, p, idx, c, last, cps, done, acc) ==
  LET r == Pass2Token(d, p, idx, c[1], c[2], c[3], last, cps, "nil")
  IN  IF r.next = "return" THEN [calls |-> acc \o r.call, ret |-> r.ret]
      ELSE IF r.next = "complete"
        THEN [calls |-> acc \o CompleteCall(cps), ret |-> Nil]
      ELSE IF CtxCheck(done) THEN [calls |-> acc \o r.call, ret |-> CtxErr]
      ELSE IF r.stop
        THEN [calls |-> acc \o r.call \o CompleteCall(cps), ret |-> Nil]
      ELSE RunPass2(d, r.pos, idx, c, r.lastAID, cps, done, acc \o r.call)

\* Lines 110-293.
Run(d, idx, cps, done) ==
  LET a == RunPass1(d, 1, idx, << 0, 0, 0 >>, done)
  IN  IF ~a.ok THEN [calls |-> << >>, ret |-> a.ret]
      ELSE RunPass2(d, 1, a.idx, a.c, "", cps, done, << >>)

(***************************************************************************)
(* CapSpec runs a Reader with a handler of any of the 32 capability sets,  *)
(* whose callbacks all return nil, under a context that is not cancelled   *)
(* while Do runs.                                                          *)
(***************************************************************************)
\* Items of a document read under CapSpec.
MaxCapItems == 2

CapInit ==
  RInitWith(DocsOf(MaxCapItems), SUBSET AllCaps) /\ WIdle /\ FIdle

CapPass2Step == Pass2StepWith({"nil"})

CapNext ==
  \/ DoStart
  \/ Pass1Step
  \/ Pass1Check
  \/ SeekBack
  \/ CapPass2Step
  \/ Pass2Check
  \/ Complete

CapSpec == CapInit /\ [][CapNext]_vars

(***************************************************************************)
(* The XML a Writer produced, as the token stream a Decoder reads from it. *)
(***************************************************************************)
RECURSIVE Repeat(_, _)
\* n copies of the token sequence ts.
Repeat(ts, n) == IF n <= 0 THEN << >> ELSE ts \o Repeat(ts, n - 1)

\* The tokens of one section of the output: the types' XMLName tags name
\* the elements.
XmlTokens(s) ==
  CASE s.sec = "xmldecl" -> << MiscTok("xml") >>
    [] s.sec = "doctype" -> << MiscTok("DOCTYPE") >>
    [] s.sec = "root" -> << StartEl("BMECAT", "", "", FALSE) >>
    [] s.sec = "header" -> Leaf(HEADER, "", "")
    [] s.sec = "txstart" -> << StartEl(s.name, "", "", FALSE) >>
    [] s.sec = "clsys" ->
         Nest(<< StartEl("CLASSIFICATION_SYSTEM", "", "", FALSE) >>,
              Nest(<< StartEl("CLASSIFICATION_GROUPS", "", "", FALSE) >>,
                   Repeat(Leaf(CLASSIFICATION_GROUP, "", "c1"), s.n)))
    [] s.sec = "groupsys" ->
         Nest(<< StartEl("CATALOG_GROUP_SYSTEM", "", "", FALSE) >>,
              Repeat(Leaf(CATALOG_STRUCTURE, "", "g1"), s.n))
    [] s.sec = "article" -> Leaf(ARTICLE, SupplierAIDOf(s.n), "")
    [] s.sec = "txend" -> << EndEl >>
    [] s.sec = "rootend" -> << EndEl >>
    [] OTHER -> << >>

RECURSIVE Document(_)
\* The output o as a document.
Document(o) == IF o = << >> THEN << >> ELSE XmlTokens(Head(o)) \o Document(Tail(o))

(***************************************************************************)
(* What a document holds, read off its tokens.                             *)
(***************************************************************************)
StartsOf(d, n) == { i \in DOMAIN d : d[i].k = "S" /\ d[i].name = n }
CountStart(d, n) == Cardinality(StartsOf(d, n))

\* The article IDs the map records of d name.
MapAIDs(d) == { d[i].a : i \in StartsOf(d, ARTICLE_TO_CATALOGGROUP_MAP) }

\* The group IDs of the map records of d that name article aid, in
\* document order.
GroupIDsOf(d, aid) ==
  LET recs == SelectSeq(d, LAMBDA t : t.k = "S"
                             /\ t.name = ARTICLE_TO_CATALOGGROUP_MAP
                             /\ t.a = aid)
  IN  [j \in DOMAIN recs |-> recs[j].g]

\* Token i of d lies inside the element that starts at token j.
Inside(d, j, i) == j < i /\ (LET e == SkipTo(d, j + 1, 1) IN ~e.ok \/ i < e.at)

\* d is a well-formed document of the format: it tokenizes, its records
\* unmarshal, and no header, group, article or map record lies inside
\* another one.
WellFormed(d) ==
  \A i \in DOMAIN d :
    /\ d[i].k # "X"
    /\ ~d[i].bad
    /\ d[i].k = "S" /\ d[i].name \in Payload =>
         \A j \in DOMAIN d :
           d[j].k = "S" /\ d[j].name \in Payload => ~Inside(d, j, i)

HeaderCalls == { i \in DOMAIN calls : calls[i].cb = "Header" }
ElementCalls ==
  { i \in DOMAIN calls : calls[i].cb \in {"Article", "CatalogGroup", "ClassifGroup"} }

(***************************************************************************)
(* C1: for every well-formed document, the header passed to HandleHeader   *)
(* carries the number of ARTICLE, of CATALOG_STRUCTURE and of              *)
(* CLASSIFICATION_GROUP start elements of the whole document, and the      *)
(* number of distinct article IDs its map records name.  Every header is   *)
(* looked at when Do comes back from delivering it.                        *)
(***************************************************************************)
C1_HeaderCounts ==
  (pc = "check2" /\ calls # << >> /\ calls[Len(calls)].cb = "Header") =>
    \/ calls[Len(calls)].counts = << CountStart(doc, ARTICLE),
                                     CountStart(doc, CATALOG_STRUCTURE),
                                     CountStart(doc, CLASSIFICATION_GROUP),
                                     Cardinality(MapAIDs(doc)) >>
    \/ ~WellFormed(doc)

\* The header comes first, two map records that name one article follow,
\* and the header was delivered.
C1_Witness ==
  /\ WellFormed(doc)
  /\ doc # << >> /\ doc[1].name = HEADER
  /\ CountStart(doc, ARTICLE_TO_CATALOGGROUP_MAP) = 2
  /\ \E i \in HeaderCalls : calls[i].counts[4] = 1

(***************************************************************************)
(* C2: for every article whose SupplierAID is the ART_ID of at least one   *)
(* map record of the document, the article passed to HandleArticle has     *)
(* CatalogGroupIDs equal to the group IDs of those records in document     *)
(* order.  The index outlives a Do, so a second Do on the same Reader      *)
(* appends the records again and delivers every list twice over.           *)
(***************************************************************************)
C2_GroupIDs ==
  \A i \in DOMAIN calls :
    (/\ calls[i].cb = "Article"
     /\ WellFormed(doc)
     /\ calls[i].id \in MapAIDs(doc))
    => calls[i].groups = GroupIDsOf(doc, calls[i].id)

\* What holds of C2: the same on the first Do of a Reader.
C2_FirstDo == doCount = 1 => C2_GroupIDs

(***************************************************************************)
(* C3, as stated: if HandleHeader returns io.EOF, Do returns nil and no    *)
(* article or group callback is made during that Do.                       *)
(***************************************************************************)
C3_Original ==
  (pc = "done" /\ \E i \in HeaderCalls : calls[i].ret = "EOF")
  => ret = Nil /\ ElementCalls = {}

(***************************************************************************)
(* C3, amended: once HandleHeader has returned io.EOF, Do makes no further *)
(* header, article or group callback, and it returns nil, or the           *)
(* cancellation error when the context is cancelled by the cancellation    *)
(* check that follows the header.                                          *)
(***************************************************************************)
C3_HeaderEOF ==
  \A i \in HeaderCalls :
    calls[i].ret = "EOF" =>
      /\ \A j \in DOMAIN calls : j > i => calls[j].cb = "Complete"
      /\ pc \in {"check2", "complete", "done"}
      /\ pc = "done" => ret = Nil \/ (ret = CtxErr /\ ctxDone)

\* The header handler stopped a Do that had an article still to deliver.
C3_Witness ==
  /\ pc = "done" /\ ret = Nil
  /\ "Article" \in caps
  /\ \E i \in HeaderCalls :
       /\ calls[i].ret = "EOF"
       /\ \E k \in StartsOf(doc, ARTICLE) : \A h \in StartsOf(doc, HEADER) : h < k

(***************************************************************************)
(* C4: if HandleHeader returns an error other than io.EOF, Do makes no     *)
(* later callback and returns a non-nil error.                             *)
(***************************************************************************)
C4_HeaderError ==
  \A i \in HeaderCalls :
    calls[i].ret = "err" =>
      /\ i = Len(calls)
      /\ pc = "done" => ret # Nil

(***************************************************************************)
(* C5: if HandleArticle, HandleCatalogGroup or HandleClassificationGroup   *)
(* returns an error, Do returns an error that wraps it and names the ID of *)
(* that element and an offset, and no callback follows the failed one.     *)
(***************************************************************************)
C5_HandlerError ==
  \A i \in ElementCalls :
    calls[i].ret # "nil" =>
      /\ i = Len(calls)
      /\ pc = "done"
      /\ ret.kind = "handler"
      /\ ret.cause = calls[i].ret
      /\ ret.id = calls[i].id
      /\ ret.off >= 1

\* A group callback failed after an earlier callback had succeeded.
C5_Witness ==
  /\ Len(calls) >= 2
  /\ calls[Len(calls)].cb \in {"CatalogGroup", "ClassifGroup"}
  /\ calls[Len(calls)].ret # "nil"
  /\ ret.kind = "handler"

\* The callbacks other than HandleComplete made since the cancellation.
CallsSinceCancel ==
  { i \in DOMAIN calls : i > cancelCalls /\ calls[i].cb # "Complete" }

\* Do ended on an error of the input, of the decoder or of a callback.
Failed(r) == r.kind \in {"io", "seek", "xml", "decode", "handler"}

(***************************************************************************)
(* C6, as stated: when the context is cancelled while Do runs, Do returns  *)
(* the cancellation error and HandleComplete is not called.  Read for the  *)
(* runs in which nothing else fails and in which tokens had been processed *)
(* when the cancellation came.                                             *)
(***************************************************************************)
C6_Original ==
  (pc = "done" /\ ctxDone /\ cancelToks >= 1 /\ ~Failed(ret))
  => /\ ret = CtxErr
     /\ \A i \in DOMAIN calls : calls[i].cb # "Complete"

(***************************************************************************)
(* C6, amended: once the context is cancelled, Do processes at most one    *)
(* further token and makes at most one further header, article or group    *)
(* callback; it then returns the cancellation error, or the error that     *)
(* further token or the seek ran into.  Only when no token is left to      *)
(* process after the cancellation does Do reach its end, call              *)
(* HandleComplete and return nil.                                          *)
(***************************************************************************)
C6_Cancelled ==
  ctxDone =>
    /\ toks - cancelToks <= 1
    /\ Cardinality(CallsSinceCancel) <= 1
    /\ pc = "done" =>
         \/ ret = CtxErr
         \/ Failed(ret)
         \/ ret = Nil /\ toks = cancelToks
    /\ \A i \in DOMAIN calls :
         (calls[i].cb = "Complete" /\ i > cancelCalls) => toks = cancelToks

\* Cancelled in the middle of the document, Do delivered one more record
\* and returned the cancellation error.
C6_Witness ==
  /\ pc = "done" /\ ret = CtxErr
  /\ cancelToks >= 1
  /\ toks = cancelToks + 1
  /\ Cardinality(CallsSinceCancel) = 1
  /\ pos <= Len(doc)

(***************************************************************************)
(* C7: when the context is cancelled while Writer.Do drains the article    *)
(* channel, Do writes at most one further article, whatever the producer   *)
(* does.  The select of the loop picks any ready case, so a producer that  *)
(* always has an article ready can be served again and again.              *)
(***************************************************************************)
C7_OneMoreArticle ==
  (wctxDone /\ wcancelAt >= 1) => written - wcancelAt <= 1

(***************************************************************************)
(* C8: on cancellation Reader.Do and Writer.Do return the context's        *)
(* cancellation error itself, not a wrapped one.  bmecat12.Writer.Do wraps *)
(* what writeArticles returns.                                             *)
(***************************************************************************)
C8_Verbatim ==
  /\ (pc = "done" /\ ret.cause = "ctx") => ret = CtxErr
  /\ (wpc = "done" /\ wret.cause = "ctx") => wret = CtxErr

(***************************************************************************)
(* C9: when pass 2 reaches the end of the stream without an error and the  *)
(* handler implements HandleComplete, HandleComplete is called exactly     *)
(* once in that Do, after every other callback of that Do.                 *)
(***************************************************************************)
C9_CompleteOnce ==
  /\ \A i \in DOMAIN calls : calls[i].cb = "Complete" => i = Len(calls)
  /\ (pc = "done" /\ ret = Nil /\ pos > Len(doc) /\ "Complete" \in caps)
     => /\ Cardinality({ i \in DOMAIN calls : calls[i].cb = "Complete" }) = 1
        /\ calls[Len(calls)].cb = "Complete"

\* A Do that delivered a header and records and then the completion.
C9_Witness ==
  /\ pc = "done" /\ ret = Nil /\ pos > Len(doc)
  /\ Len(calls) >= 3
  /\ calls[1].cb = "Header" /\ calls[1].ret = "nil"
  /\ calls[Len(calls)].cb = "Complete"

(***************************************************************************)
(* C10: for every set S of the five capabilities, Do on a handler that     *)
(* implements exactly S calls only callbacks of S, the callbacks and       *)
(* arguments it delivers are those delivered to a handler implementing all *)
(* five, restricted to S, and Do returns the same in both runs (all        *)
(* callbacks returning nil, no Seek failing).                              *)
(***************************************************************************)
C10_CapabilitySubset ==
  /\ \A i \in DOMAIN calls : calls[i].cb \in caps
  /\ (pc = "done" /\ ret.kind \notin {"io", "seek"}) =>
       LET full == Run(doc, idxAtStart, AllCaps, ctxDone)
       IN  /\ calls = SelectSeq(full.calls, LAMBDA c : c.cb \in caps)
           /\ ret = full.ret

\* A handler of articles only read a document from which a full handler
\* gets two callbacks more.
C10_Witness ==
  /\ pc = "done" /\ ret = Nil
  /\ caps = {"Article"}
  /\ Len(calls) = 1
  /\ Len(Run(doc, idxAtStart, AllCaps, ctxDone).calls) = 3

\* The callbacks of capability cb among cs.
CallsOf(cs, cb) == SelectSeq(cs, LAMBDA c : c.cb = cb)

\* The group counts of the sections of kind sec in the output o.
RECURSIVE Written(_, _)
Written(o, sec) ==
  IF o = << >> THEN 0
  ELSE (IF Head(o).sec = sec THEN Head(o).n ELSE 0) + Written(Tail(o), sec)

(***************************************************************************)
(* C11: round trip.  When Writer.Do has written a header and a list of     *)
(* articles, with any of the three transactions, and returned nil, then    *)
(* Reader.Do over that output returns nil and delivers one header, one     *)
(* HandleArticle call per article written, with the SupplierAIDs written   *)
(* in their order and no CatalogGroupIDs, and the header counts the        *)
(* articles and the classification groups written.                         *)
(***************************************************************************)
C11_RoundTrip ==
  (wpc = "done" /\ wret = Nil /\ whdr) =>
    LET r == Run(Document(out), EmptyIndex, AllCaps, FALSE)
        hdrs == CallsOf(r.calls, "Header")
        arts == CallsOf(r.calls, "Article")
        sent == SelectSeq(out, LAMBDA s : s.sec = "article")
    IN  /\ r.ret = Nil
        /\ Len(hdrs) = 1
        /\ Len(arts) = written
        /\ Len(arts) = Len(sent)
        /\ \A i \in DOMAIN arts :
             /\ arts[i].id = SupplierAIDOf(sent[i].n)
             /\ arts[i].groups = << >>
        /\ hdrs[1].counts[1] = written
        /\ hdrs[1].counts[3] = Written(out, "clsys")

\* A new catalog with a classification system, a group system and three
\* articles was written and read back.
C11_Witness ==
  /\ wpc = "done" /\ wret = Nil /\ whdr
  /\ wtx = NewCatalog
  /\ written = 3
  /\ Written(out, "clsys") = MaxClassifGroups
  /\ Written(out, "groupsys") = MaxStructures
  /\ Len(CallsOf(Run(Document(out), EmptyIndex, AllCaps, FALSE).calls,
                 "Article")) = 3

\* The place of a section in the document.
Rank(sec) ==
  CASE sec = "xmldecl" -> 1 [] sec = "doctype" -> 2 [] sec = "root" -> 3
    [] sec = "header" -> 4 [] sec = "txstart" -> 5 [] sec = "clsys" -> 6
    [] sec = "groupsys" -> 7 [] sec = "article" -> 8 [] sec = "txend" -> 9
    [] sec = "rootend" -> 10 [] sec = "flush" -> 11

\* The sections of kind sec in the output.
Sections(sec) == { i \in DOMAIN out : out[i].sec = sec }

(***************************************************************************)
(* C12: the sections of the output are emitted in the order XML            *)
(* declaration, DOCTYPE, opening root, header, opening transaction         *)
(* element, classification system, catalog group system, articles, closing *)
(* transaction element, closing root, flush; none but the article comes    *)
(* twice; a Do that returned nil has emitted each of the fixed ones, and   *)
(* the header exactly if there is one.                                     *)
(***************************************************************************)
C12_SectionOrder ==
  /\ \A i \in 1 .. Len(out) - 1 :
       /\ Rank(out[i].sec) <= Rank(out[i + 1].sec)
       /\ Rank(out[i].sec) = Rank(out[i + 1].sec) => out[i].sec = "article"
  /\ (wpc = "done" /\ wret = Nil) =>
       /\ \A sec \in {"xmldecl", "doctype", "root", "txstart", "txend",
                      "rootend", "flush"} : Sections(sec) # {}
       /\ Sections("header") # {} <=> whdr

\* A complete catalog with every optional section and two articles.
C12_Witness ==
  /\ wpc = "done" /\ wret = Nil
  /\ Sections("header") # {} /\ Sections("clsys") # {}
  /\ Sections("groupsys") # {}
  /\ Cardinality(Sections("article")) = 2

\* The name the format gives the transaction element of kind t.
WrapperName(t) ==
  CASE t = NewCatalog -> "T_NEW_CATALOG"
    [] t = UpdateProducts -> "T_UPDATE_PRODUCTS"
    [] t = UpdatePrices -> "T_UPDATE_PRICES"

(***************************************************************************)
(* C13: the opening and the closing transaction element carry the name of  *)
(* the transaction kind, and the opening one carries prev_version, equal   *)
(* to PreviousVersion(), exactly for update-products and update-prices.    *)
(***************************************************************************)
C13_Wrapper ==
  /\ \A i \in Sections("txstart") :
       /\ out[i].name = WrapperName(wtx)
       /\ out[i].n = IF wtx \in {UpdateProducts, UpdatePrices} THEN wprev ELSE -1
  /\ \A i \in Sections("txend") : out[i].name = WrapperName(wtx)

\* A price update of previous version 1 was written to its end.
C13_Witness ==
  /\ wpc = "done" /\ wret = Nil
  /\ wtx = UpdatePrices /\ wprev = 1
  /\ \E i \in Sections("txstart") : out[i].n = 1
  /\ \E i \in Sections("txend") : out[i].name = "T_UPDATE_PRICES"

(***************************************************************************)
(* C14: a CLASSIFICATION_SYSTEM element is emitted only for the            *)
(* new-catalog transaction and a classification system that is not nil and *)
(* has at least one group, and then every Do that returns nil has emitted  *)
(* it; a system without groups, and any system under an update             *)
(* transaction, is never emitted.                                          *)
(***************************************************************************)
C14_ClassificationSystem ==
  /\ Sections("clsys") # {} =>
       /\ wtx = NewCatalog
       /\ wcls = "full"
       /\ \A i \in Sections("clsys") : out[i].n >= 1
  /\ (wpc = "done" /\ wret = Nil /\ wpkg = "bmecat12" /\ wtx = NewCatalog
      /\ wcls = "full") => Cardinality(Sections("clsys")) = 1

\* A new catalog whose classification system has no groups was written
\* to its end.
C14_Witness ==
  /\ wpc = "done" /\ wret = Nil
  /\ wpkg = "bmecat12" /\ wtx = NewCatalog /\ wcls = "blank"
  /\ Sections("clsys") = {}

\* The producer has put an error on the error channel.
ErrorSent == errCh.q # << >> \/ wret.cause = "producer"

(***************************************************************************)
(* C15: if the producer sends an error on the error channel, Do returns an *)
(* error that carries it and emits neither the closing transaction element *)
(* nor the closing root, whatever the interleaving.  Read for the runs in  *)
(* which the context is not cancelled and no write fails.  When the        *)
(* producer closes the article channel after sending, the select may take  *)
(* the closed channel: the error is never received.                        *)
(***************************************************************************)
C15_ProducerError ==
  (wpc = "done" /\ ErrorSent /\ ~wctxDone /\ wret.cause # "io") =>
    /\ wret.cause = "producer"
    /\ Sections("txend") = {}
    /\ Sections("rootend") = {}

(***************************************************************************)
(* C16: when Articles returns a nil article channel, bmecat12's Do skips   *)
(* the article step: it never waits in the select (neither the error       *)
(* channel nor the context is consulted), writes no ARTICLE, and, unless a *)
(* write fails, emits the closing transaction element and the closing root *)
(* and returns nil, even when the context is cancelled.                    *)
(***************************************************************************)
C16_NilChannel ==
  (wpkg = "bmecat12" /\ articlesCh.nil) =>
    /\ wpc # "select"
    /\ Sections("article") = {}
    /\ written = 0
    /\ wret.cause \notin {"ctx", "producer"}
    /\ wpc = "done" =>
         \/ wret.cause = "io"
         \/ /\ wret = Nil
            /\ Sections("txend") # {}
            /\ Sections("rootend") # {}

C16_Witness ==
  /\ wpkg = "bmecat12" /\ articlesCh.nil
  /\ wpc = "done" /\ wret = Nil
  /\ wctxDone
  /\ Sections("txend") # {} /\ Sections("rootend") # {}

(***************************************************************************)
(* NewDateTime applied to the type names of src/v12/header.go and to times *)
(* around the zero instant, around midnight, on a leap day and on the days *)
(* of src/v12/date_time_test.go, in UTC, in a Location of offset zero that *)
(* is not time.UTC, and east and west of UTC.                              *)
(***************************************************************************)
DateTypes == {"generation_date", "valid_start_date"}

Locations ==
  { UTC, Location("Local", 0), Location("CET", 3600),
    Location("America/New_York", -14400), Location("IST", 19800),
    Location("west", -1800) }

Times ==
  { GoTime(d, s, n, l) :
      d \in {0, 1, 730118, 730416, 736022, 736541},
      s \in {0, 47579, 74280, 86399},
      n \in {0, 999},
      l \in Locations }

DtInit ==
  /\ dtTyp \in DateTypes
  /\ dtIn \in Times
  /\ dtOut = NilDateTime
  /\ dtpc = "idle"
  /\ UIdle /\ RIdle /\ WIdle

\* have := NewDateTime(tt.Typ, tt.Date).
DtCall ==
  /\ dtpc = "idle"
  /\ dtOut' = NewDateTime(dtTyp, dtIn)
  /\ dtpc' = "done"
  /\ UNCHANGED << dtTyp, dtIn, uvars, rvars, wvars >>

DtNext == DtCall

DtSpec == DtInit /\ [][DtNext]_vars

\* The day number of a date, the other way round.
DaysFromCivil(y, m, d) ==
  LET yy == IF m <= 2 THEN y - 1 ELSE y
      era == yy \div 400
      yoe == yy - era * 400
      doy == ((153 * (IF m > 2 THEN m - 3 ELSE m + 9) + 2) \div 5) + d - 1
      doe == yoe * 365 + (yoe \div 4) - (yoe \div 100) + doy
  IN  era * 146097 + doe - 306

DaysIn(y, m) ==
  IF m = 2
  THEN IF y % 4 = 0 /\ (y % 100 # 0 \/ y % 400 = 0) THEN 29 ELSE 28
  ELSE IF m \in {4, 6, 9, 11} THEN 30 ELSE 31

\* The signed HH:MM text of the offsets in Locations.
OffsetText(off) ==
  CASE off = 0 -> "+00:00"
    [] off = 3600 -> "+01:00"
    [] off = -14400 -> "-04:00"
    [] off = 19800 -> "+05:30"
    [] off = -1800 -> "-00:30"

(***************************************************************************)
(* C17: NewDateTime(typ, t) is nil when t is the zero instant.  Otherwise  *)
(* Type is typ, DateString and TimeString are the date and the time of day *)
(* of t in its Location, and TimeZoneString is "Z" when the Location is    *)
(* time.UTC and the signed HH:MM offset otherwise.  The two cases of       *)
(* date_time_test.go that return a record come out as the test expects.    *)
(***************************************************************************)
C17_NewDateTime ==
  dtpc = "done" =>
    /\ dtOut.nil <=> (dtIn.day = 0 /\ dtIn.sec = 0 /\ dtIn.nsec = 0)
    /\ ~dtOut.nil =>
         /\ dtOut.Type = dtTyp
         /\ dtOut.TimeZoneString =
              IF dtIn.loc.name = "UTC" THEN "Z"
              ELSE OffsetText(dtIn.loc.offset)
         /\ \E y \in {0, 1, 1999, 2000, 2016, 2017}, m \in 1 .. 12 :
              \E d \in 1 .. DaysIn(y, m) :
                /\ DaysFromCivil(y, m, d)
                     = dtIn.day + ((dtIn.sec + dtIn.loc.offset) \div 86400)
                /\ dtOut.DateString =
                     Pad4(y) \o "-" \o Pad2(m) \o "-" \o Pad2(d)
         /\ \E h \in 0 .. 23, mi \in 0 .. 59 :
              LET sc == ((dtIn.sec + dtIn.loc.offset) % 86400)
                          - h * 3600 - mi * 60
              IN  /\ sc \in 0 .. 59
                  /\ dtOut.TimeString =
                       Pad2(h) \o ":" \o Pad2(mi) \o ":" \o Pad2(sc)
    /\ (dtIn = GoTime(730416, 74280, 999, UTC)) =>
         dtOut = [nil |-> FALSE, Type |-> dtTyp, DateString |-> "2000-10-24",
                  TimeString |-> "20:38:00", TimeZoneString |-> "Z"]
    /\ (dtIn = GoTime(736541, 47579, 999,
                      Location("America/New_York", -14400))) =>
         dtOut = [nil |-> FALSE, Type |-> dtTyp, DateString |-> "2017-08-01",
                  TimeString |-> "09:12:59", TimeZoneString |-> "-04:00"]

\* A time in a Location west of UTC whose date there is the day before.
C17_Witness ==
  /\ dtpc = "done"
  /\ dtIn = GoTime(736022, 0, 0, Location("America/New_York", -14400))
  /\ dtOut.DateString = "2016-02-28"
  /\ dtOut.TimeString = "20:00:00"
  /\ dtOut.TimeZoneString = "-04:00"

(***************************************************************************)
(* UserDefinedExtensions (part_005).  A string is the sequence of its      *)
(* characters.  The XML MarshalXML writes is kept as the tokens a Decoder  *)
(* reads from it: start and end tags with their names as written, and      *)
(* character data in its escaped form.                                     *)
(***************************************************************************)
MaxFields == 2

XStart(n) == [k |-> "S", name |-> n, text |-> << >>]
XEnd(n) == [k |-> "E", name |-> n, text |-> << >>]
XText(cs) == [k |-> "T", name |-> << >>, text |-> cs]

\* The element name of the list and the prefix of a field's element name.
Wrapper == << "USER_DEFINED_EXTENSIONS" >>
Prefix == << "U", "D", "X", "." >>

\* strings.HasPrefix.
HasPrefix(str, pre) ==
  Len(str) >= Len(pre) /\ SubSeq(str, 1, Len(pre)) = pre

\* Encoder: character data is written with & and < as entities; no
\* character data is written for an empty value.
NoEscape(c) == << c >>

EscapeChar(c) ==
  CASE c = "&" -> << "&", "a", "m", "p", ";" >>
    [] c = "<" -> << "&", "l", "t", ";" >>
    [] OTHER -> << c >>

RECURSIVE EscapeText(_)
EscapeText(cs) ==
  IF cs = << >> THEN << >> ELSE EscapeChar(Head(cs)) \o EscapeText(Tail(cs))

CharData(cs) == IF cs = << >> THEN << >> ELSE << XText(EscapeText(cs)) >>

\* Decoder: an entity becomes the character it names; an & that starts no
\* entity is left as it is.
RECURSIVE Unescape(_)
Unescape(cs) ==
  IF cs = << >> THEN << >>
  ELSE IF HasPrefix(cs, << "&", "a", "m", "p", ";" >>)
       THEN << "&" >> \o Unescape(SubSeq(cs, 6, Len(cs)))
  ELSE IF HasPrefix(cs, << "&", "l", "t", ";" >>)
       THEN << "<" >> \o Unescape(SubSeq(cs, 5, Len(cs)))
  ELSE << Head(cs) >> \o Unescape(Tail(cs))

\* Decoder: the local part of a name as written.  A name with exactly one
\* colon and something on both sides of it is a prefixed name.
Local(n) ==
  LET colons == { i \in DOMAIN n : n[i] = ":" }
  IN  IF Cardinality(colons) = 1
      THEN LET i == CHOOSE j \in colons : TRUE
           IN  IF i = 1 \/ i = Len(n) THEN n ELSE SubSeq(n, i + 1, Len(n))
      ELSE n

\* UserDefinedExtensionField, lines 28-33.
Field(name, value, inner, raw) ==
  [Name |-> name, Value |-> value, InnerXML |-> inner, Raw |-> raw]

\* Add, lines 86-90, and AddRaw, lines 95-99.
Add(x, name, value) == Append(x, Field(name, value, << >>, FALSE))
AddRaw(x, name, value) == Append(x, Field(name, value, << >>, TRUE))

\* Get, lines 103-110: the value of the first field of that name.
Get(x, name) ==
  LET hits == { i \in DOMAIN x : x[i].Name = name }
  IN  IF hits = {} THEN [value |-> << >>, ok |-> FALSE]
      ELSE [value |-> x[CHOOSE i \in hits : \A j \in hits : i <= j].Value,
            ok |-> TRUE]

\* MarshalXML, lines 38-54: one field.  The value of a raw field is the XML
\* it stands for and goes out as it is.
MarshalField(field) ==
  LET local == Prefix \o field.Name
  IN  << XStart(local) >>
        \o (IF field.Raw THEN field.Value ELSE CharData(field.Value))
        \o << XEnd(local) >>

RECURSIVE MarshalFields(_)
MarshalFields(x) ==
  IF x = << >> THEN << >>
  ELSE MarshalField(Head(x)) \o MarshalFields(Tail(x))

\* MarshalXML, lines 36-57.
MarshalXML(x) == << XStart(Wrapper) >> \o MarshalFields(x) \o << XEnd(Wrapper) >>

\* Decoder: the index of the end tag that closes what is open at depth
\* when reading goes on at i.
RECURSIVE EndOf(_, _, _)
EndOf(ts, i, depth) ==
  IF i > Len(ts) THEN i
  ELSE IF ts[i].k = "S" THEN EndOf(ts, i + 1, depth + 1)
  ELSE IF ts[i].k = "E"
       THEN IF depth = 1 THEN i ELSE EndOf(ts, i + 1, depth - 1)
  ELSE EndOf(ts, i + 1, depth)

\* DecodeElement into a field (`xml:",chardata"`): the character data right
\* below the element that spans ts[i] .. ts[j], unescaped.
RECURSIVE ChardataOf(_, _, _, _)
ChardataOf(ts, i, j, depth) ==
  IF i > j THEN << >>
  ELSE IF ts[i].k = "S" THEN ChardataOf(ts, i + 1, j, depth + 1)
  ELSE IF ts[i].k = "E" THEN ChardataOf(ts, i + 1, j, depth - 1)
  ELSE (IF depth = 0 THEN Unescape(ts[i].text) ELSE << >>)
         \o ChardataOf(ts, i + 1, j, depth)

\* UnmarshalXML, lines 63-79, from token i on: every start element whose
\* local name begins with UDX. is decoded whole into a field; any other
\* token is passed over.
RECURSIVE ReadFields(_, _, _)
ReadFields(ts, i, fields) ==
  IF i > Len(ts) THEN fields
  ELSE IF ts[i].k = "S" /\ HasPrefix(Local(ts[i].name), Prefix)
       THEN LET j == EndOf(ts, i + 1, 1)
                field == Field(SubSeq(Local(ts[i].name), 5,
                                      Len(Local(ts[i].name))),
                               ChardataOf(ts, i + 1, j - 1, 0),
                               SubSeq(ts, i + 1, j - 1), FALSE)
            IN  ReadFields(ts, j + 1, Append(fields, field))
  ELSE ReadFields(ts, i + 1, fields)

\* xml.Unmarshal into a UserDefinedExtensions: UnmarshalXML (lines 60-83)
\* gets what lies between the first start tag and its end tag.
UnmarshalXML(ts) ==
  IF ts = << >> THEN << >>
  ELSE ReadFields(SubSeq(ts, 2, EndOf(ts, 2, 1) - 1), 1, << >>)

\* Field names, among them one that begins with UDX. itself; values, among
\* them text that has to be escaped and text that reads like an entity;
\* raw values, among them one that holds a UDX element (part_002, 55-80).
Names ==
  { << "F" >>, << "S", ".", "F" >>, << "U", "D", "X", ".", "F" >>, << >> }

Values ==
  { << >>, << "A" >>, << "<", "A" >>, << "&" >>, << "&", "l", "t", ";" >> }

RawValues ==
  { << >>,
    << XStart(Prefix \o << "F" >>), XText(<< "A" >>),
       XEnd(Prefix \o << "F" >>), XText(<< "B" >>) >> }

UdxInit ==
  /\ udx = << >> /\ udxXml = << >> /\ udxRead = << >> /\ upc = "build"
  /\ DIdle /\ RIdle /\ WIdle

\* udx.Fields.Add(name, value).
UAdd ==
  /\ upc = "build" /\ Len(udx) < MaxFields
  /\ \E n \in Names, v \in Values : udx' = Add(udx, n, v)
  /\ UNCHANGED << udxXml, udxRead, upc, dvars, rvars, wvars >>

\* udx.Fields.AddRaw(name, value).
UAddRaw ==
  /\ upc = "build" /\ Len(udx) < MaxFields
  /\ \E n \in Names, v \in RawValues : udx' = AddRaw(udx, n, v)
  /\ UNCHANGED << udxXml, udxRead, upc, dvars, rvars, wvars >>

\* xml.Marshal(udx).
UMarshal ==
  /\ upc = "build"
  /\ udxXml' = MarshalXML(udx)
  /\ upc' = "marshalled"
  /\ UNCHANGED << udx, udxRead, dvars, rvars, wvars >>

\* xml.Unmarshal(out, &read).
UUnmarshal ==
  /\ upc = "marshalled"
  /\ udxRead' = UnmarshalXML(udxXml)
  /\ upc' = "read"
  /\ UNCHANGED << udx, udxXml, dvars, rvars, wvars >>

UdxNext ==
  \/ UAdd
  \/ UAddRaw
  \/ UMarshal
  \/ UUnmarshal

UdxSpec == UdxInit /\ [][UdxNext]_vars

\* The elements right below the wrapper in ts, as index pairs.
TopElements(ts) ==
  { << i, EndOf(ts, i + 1, 1) >> :
      i \in { k \in 2 .. Len(ts) - 1 :
                ts[k].k = "S" /\ EndOf(ts, 2, 1) = Len(ts)
                /\ \A m \in 2 .. k - 1 :
                     ts[m].k = "S" => EndOf(ts, m + 1, 1) < k } }

AllPlain(x) == \A i \in DOMAIN x : ~x[i].Raw

(***************************************************************************)
(* C18: for a list of fields that are not raw, MarshalXML writes, in list  *)
(* order and inside the wrapper, one element UDX.<name> per field with the *)
(* value as its text; UnmarshalXML of that XML gives fields of the same    *)
(* names and values in the same order, so Get gives for every name what it *)
(* gave on the list that was marshalled.                                   *)
(***************************************************************************)
C18_UDXRoundTrip ==
  (upc \in {"marshalled", "read"} /\ AllPlain(udx)) =>
    /\ Head(udxXml) = XStart(Wrapper)
    /\ udxXml[Len(udxXml)] = XEnd(Wrapper)
    /\ Cardinality(TopElements(udxXml)) = Len(udx)
    /\ \A e \in TopElements(udxXml) :
         LET n == Cardinality({ f \in TopElements(udxXml) : f[1] <= e[1] })
         IN  /\ udxXml[e[1]].name = Prefix \o udx[n].Name
             /\ udxXml[e[2]] = XEnd(Prefix \o udx[n].Name)
             /\ \A m \in e[1] + 1 .. e[2] - 1 : udxXml[m].k = "T"
             /\ ChardataOf(udxXml, e[1] + 1, e[2] - 1, 0) = udx[n].Value
    /\ upc = "read" =>
         /\ Len(udxRead) = Len(udx)
         /\ \A i \in DOMAIN udx :
              /\ udxRead[i].Name = udx[i].Name
              /\ udxRead[i].Value = udx[i].Value
         /\ \A n \in Names : Get(udxRead, n) = Get(udx, n)

\* Two fields of one name, the first with a value that had to be escaped.
C18_Witness ==
  /\ upc = "read"
  /\ udx = Add(Add(<< >>, << "S", ".", "F" >>, << "<", "A" >>),
               << "S", ".", "F" >>, << "&", "l", "t", ";" >>)
  /\ Len(udxXml) = 8
  /\ Get(udxRead, << "S", ".", "F" >>) = [value |-> << "<", "A" >>, ok |-> TRUE]

(***************************************************************************)
(* C19: in every Do, a handler is called only in pass 2 (or on completion  *)
(* after it), pass 2 is entered only by the seek back having succeeded,    *)
(* and the seek back is reached only by pass 1 having read the document to *)
(* EOF; a Do that ends in pass 1 or at the seek back returns an error, the *)
(* failed seek back one of its own kind, with no handler called.  The      *)
(* index is looked up only in a pass 2 step (Pass2Token).                  *)
(***************************************************************************)
C19_PassOrder ==
  /\ [](calls # << >> => pc \in {"pass2", "check2", "complete", "done"})
  /\ [][/\ Len(calls') > Len(calls) => pc \in {"pass2", "complete"}
        /\ (pc' = "pass2" /\ pc \notin {"pass2", "check2"}) => pc = "seek"
        /\ (pc' = "seek" /\ pc # "seek") =>
             /\ pc = "pass1"
             /\ pos > Len(doc)
             /\ \A i \in DOMAIN doc : doc[i].k # "X"
        /\ (pc \in {"pass1", "check1", "seek"} /\ pc' = "done") =>
             /\ ret' # Nil
             /\ calls' = << >>
             /\ (ret'.kind = "seek") <=> (pc = "seek")]_vars

\* The seek back failed on a document whose header and article the handler
\* would have been given.
C19_Witness ==
  /\ pc = "done" /\ ret.kind = "seek" /\ calls = << >>
  /\ {"Header", "Article"} \subseteq caps
  /\ CountStart(doc, HEADER) > 0 /\ CountStart(doc, ARTICLE) > 0

\* The index a Do builds from document d on a Reader that has read nothing.
FreshIndex(d) == RunPass1(d, 1, EmptyIndex, << 0, 0, 0 >>, FALSE).idx

(***************************************************************************)
(* C20: a second Do on the same Reader over the same document gives every  *)
(* article the CatalogGroupIDs, and the header the number of mapped        *)
(* articles, that the first Do gave: those of the index built from the     *)
(* document alone.  The index is made in NewReader and never emptied, so   *)
(* the second pass 1 appends every group ID once more.                     *)
(***************************************************************************)
C20_SecondDo ==
  doCount = 2 =>
    \A i \in DOMAIN calls :
      /\ calls[i].cb = "Article" =>
           calls[i].groups = IndexLookup(FreshIndex(doc), calls[i].id)
      /\ calls[i].cb = "Header" =>
           calls[i].counts[4] = Cardinality(DOMAIN FreshIndex(doc))

\* The mutex is held just before event i of ev.
Held(ev, i) ==
  Cardinality({ j \in 1 .. i - 1 : ev[j] = "Lock" })
    > Cardinality({ j \in 1 .. i - 1 : ev[j] = "Unlock" })

\* Lock and Unlock alternate, the index is touched only with the mutex
\* held, and the mutex is free at every handler call and at the end.
WellLocked(ev) ==
  /\ \A i \in DOMAIN ev :
       /\ ev[i] \in {"read", "write", "Unlock"} => Held(ev, i)
       /\ ev[i] \in {"call", "Lock"} => ~Held(ev, i)
  /\ ~Held(ev, Len(ev) + 1)

(***************************************************************************)
(* C21: only an iteration of pass 1 changes the index; from the start of   *)
(* pass 2 until Do returns its keys and lists stay as they are and nothing *)
(* is written to it; every read and write of the index happens with the    *)
(* mutex held, and the mutex is free whenever a handler is called and when *)
(* the iteration (or Do) ends.                                             *)
(***************************************************************************)
C21_IndexFrame ==
  /\ [](WellLocked(mu))
  /\ [][/\ artToCatalogGroup' # artToCatalogGroup =>
             (pc = "pass1" /\ \E i \in DOMAIN mu' : mu'[i] = "write")
        /\ pc \in {"pass2", "check2", "complete"} =>
             /\ artToCatalogGroup' = artToCatalogGroup
             /\ \A i \in DOMAIN mu' : mu'[i] # "write"]_vars

\* Pass 2 has looked up an article in an index that pass 1 filled.
C21_Witness ==
  /\ pc = "check2"
  /\ mu = << "Lock", "read", "Unlock", "call" >>
  /\ calls # << >> /\ calls[Len(calls)].cb = "Article"
  /\ calls[Len(calls)].groups # << >>

\* The elements pass 2 hands to a handler of capabilities cps: those of the
\* four names that lie in no other element of the four names.
Handled == {HEADER, CATALOG_STRUCTURE, CLASSIFICATION_GROUP, ARTICLE}

CapabilityOf(n) ==
  CASE n = HEADER -> "Header"
    [] n = CATALOG_STRUCTURE -> "CatalogGroup"
    [] n = CLASSIFICATION_GROUP -> "ClassifGroup"
    [] n = ARTICLE -> "Article"

Delivered(d, cps) ==
  { i \in DOMAIN d :
      /\ d[i].k = "S" /\ d[i].name \in Handled
      /\ CapabilityOf(d[i].name) \in cps
      /\ \A j \in 1 .. i - 1 :
           (d[j].k = "S" /\ d[j].name \in Handled) => ~Inside(d, j, i) }

\* The n-th smallest member of the set S of numbers.
Nth(S, n) == CHOOSE i \in S : Cardinality({ j \in S : j <= i }) = n

(***************************************************************************)
(* C22: the callbacks of pass 2 come in document order, one per element at *)
(* most: the n-th callback of a Do (the completion apart) is the callback  *)
(* for the n-th element of the document that the handler is given.         *)
(***************************************************************************)
C22_DocumentOrder ==
  LET els == Delivered(doc, caps)
      cbs == SelectSeq(calls, LAMBDA c : c.cb # "Complete")
  IN  /\ Len(cbs) <= Cardinality(els)
      /\ \A n \in DOMAIN cbs :
           LET t == doc[Nth(els, n)]
           IN  /\ cbs[n].cb = CapabilityOf(t.name)
               /\ cbs[n].id = (IF t.name = ARTICLE THEN t.a
                               ELSE IF t.name = HEADER THEN "" ELSE t.g)

\* Three callbacks of three kinds, for a document that also holds an
\* element inside a header.
C22_Witness ==
  /\ pc = "done" /\ ret = Nil
  /\ Len(calls) >= 3
  /\ calls[1].cb = "Article" /\ calls[2].cb = "Header"
  /\ \E i \in DOMAIN doc, j \in DOMAIN doc :
       doc[i].name = ARTICLE /\ doc[j].name = HEADER /\ Inside(doc, j, i)

(***************************************************************************)
(* C23: every failure to tokenize the input or to decode an element, in    *)
(* pass 1 or pass 2, comes back from Do wrapped with the SupplierAID of    *)
(* the nearest article before it and a byte offset.  A failed Token() is   *)
(* returned as it is (lines 159-161 and 215-217), and only a failed        *)
(* ARTICLE carries an article ID.                                          *)
(***************************************************************************)
C23_WrappedDecodeError ==
  (pc = "done" /\ ret.kind \in {"xml", "decode"}) =>
    /\ ret.kind = "decode"
    /\ ret.off >= 0
    /\ ret.id = lastAID

(***************************************************************************)
(* C24: when Do returns because the context was cancelled in the article   *)
(* step, the output has neither the closing transaction element nor the    *)
(* closing root, nothing was flushed, and nothing follows the last article *)
(* written.                                                                *)
(***************************************************************************)
C24_CancelledOpen ==
  (wpc = "done" /\ wret.cause = "ctx") =>
    /\ Sections("txend") = {}
    /\ Sections("rootend") = {}
    /\ Sections("flush") = {}
    /\ Cardinality(Sections("article")) = written
    /\ written > 0 => out[Len(out)].sec = "article"

\* Cancelled after two articles.
C24_Witness ==
  /\ wpc = "done" /\ wret.cause = "ctx"
  /\ written = 2
  /\ out[Len(out)].sec = "article"

C26_AllArticlesWritten ==
  (/\ wpc = "done"
   /\ ~articlesCh.nil /\ articlesCh.closed
   /\ ~ErrorSent
   /\ ~wctxDone
   /\ wret.cause # "io") =>
    /\ wret = Nil
    /\ written = produced

(***************************************************************************)
(* C27: on a Do that completes with a handler of all capabilities whose    *)
(* callbacks return nil, the numbers of article, catalog group and         *)
(* classification group callbacks are the header's NumberOfArticles,       *)
(* NumberOfCatalogGroups and NumberOfClassificationGroups, also for        *)
(* elements inside a header or inside another delivered element.  Pass 1   *)
(* counts start tags by name wherever they are; pass 2 decodes a delivered *)
(* element with its subtree and never sees what is inside.                 *)
(***************************************************************************)
C27_CountsAgree ==
  (/\ pc = "done" /\ ret = Nil
   /\ caps = AllCaps
   /\ \A i \in DOMAIN calls : calls[i].ret = "nil") =>
    \A h \in HeaderCalls :
      calls[h].counts[1] = Len(CallsOf(calls, "Article"))
      /\ calls[h].counts[2] = Len(CallsOf(calls, "CatalogGroup"))
      /\ calls[h].counts[3] = Len(CallsOf(calls, "ClassifGroup"))

(***************************************************************************)
(* C28: for a handler that implements HandleComplete, a Do has called it   *)
(* exactly when it has returned nil, and then once: not while Do runs, not *)
(* when Do returns an error of any kind, and also when Do returns nil      *)
(* because HandleHeader returned io.EOF.                                   *)
(***************************************************************************)
C28_CompleteIffNil ==
  "Complete" \in caps =>
    LET n == Len(CallsOf(calls, "Complete"))
    IN  /\ n <= 1
        /\ n = 1 <=> (pc = "done" /\ ret = Nil /\ doCount > 0)

\* HandleHeader returned io.EOF with an article still to come; Do returned
\* nil after the completion callback.
C28_Witness ==
  /\ pc = "done" /\ ret = Nil
  /\ Len(calls) = 2
  /\ calls[1].cb = "Header" /\ calls[1].ret = "EOF"
  /\ calls[2].cb = "Complete"
  /\ pos <= Len(doc)

(***************************************************************************)
(* C29: io.EOF stops Do without an error only when HandleHeader returns    *)
(* it.  When HandleArticle, HandleCatalogGroup or                          *)
(* HandleClassificationGroup returns io.EOF, Do ends there with a non-nil  *)
(* handler error and makes no completion callback; a header callback never *)
(* ends Do with a handler error.                                           *)
(***************************************************************************)
C29_EOFOnlyForHeader ==
  /\ \A i \in ElementCalls :
       calls[i].ret = "EOF" =>
         /\ pc = "done"
         /\ ret # Nil
         /\ ret.kind = "handler"
         /\ CallsOf(calls, "Complete") = << >>
  /\ (pc = "done" /\ ret.kind = "handler") => Len(calls) \in ElementCalls

\* An article callback returned io.EOF after the header callback had
\* succeeded, and Do returned the handler error.
C29_Witness ==
  /\ pc = "done" /\ ret.kind = "handler" /\ ret.cause = "EOF"
  /\ Len(calls) = 2
  /\ calls[1].cb = "Header" /\ calls[1].ret = "nil"
  /\ calls[2].cb = "Article" /\ calls[2].ret = "EOF"

(***************************************************************************)
(* C30: a Do that is called with its context already cancelled returns the *)
(* cancellation error and makes no callback, HandleComplete included,      *)
(* whatever the document, the empty one too.  Read for the runs in which   *)
(* neither the input nor the decoder fails.                                *)
(***************************************************************************)
C30_CancelledBeforeDo ==
  (pc = "done" /\ ctxAtStart /\ ~Failed(ret)) =>
    (ret = CtxErr /\ calls = << >>)

=============================================================================
